---- MODULE Spec2Model ----
(***************************************************************************)
(* Data profiling, cleaning-plan generation and cleaning execution of the  *)
(* AI4business wizard (src/src/data_profiler.py, src/src/data_cleaner.py). *)
(*                                                                         *)
(* A table (pandas DataFrame) is a record                                  *)
(*     [cols  : sequence of column names,                                  *)
(*      dtype : column name -> storage type,                               *)
(*      rows  : sequence of rows, a row being column name -> cell].        *)
(* A cell is NaN, a number (an exact rational n/d in lowest terms: the     *)
(* values met here are small dyadic or third fractions, where float64      *)
(* agrees with exact arithmetic on every comparison made) or a str (a      *)
(* sequence of one-character strings).  pandas semantics are those of      *)
(* pandas 1.x/2.x, where text read from a CSV is stored with dtype object. *)
(***************************************************************************)
EXTENDS Integers, Sequences, FiniteSets, TLC

VARIABLES
    raw_df,     \* the table the session loaded (st.session_state.raw_df)
    profile,    \* its profile (st.session_state.profile), NoProfile until computed
    suggestions,\* the column mapping suggested for it, NoSuggestions until computed
    plan,       \* the cleaning plan generated from the profile
    heap,       \* the DataFrame objects alive during a call: caller's and local
    dfref,      \* which object the name `df` of apply_cleaning_actions is bound to
    actions,    \* the action list passed to apply_cleaning_actions
    i,          \* 1-based position of the for loop in `actions`
    log,        \* the log list of apply_cleaning_actions
    pc,         \* "profile" | "plan" | "planned" | "call" | "loop" | "done", or the
                \* position of the dashboard: "visualize" | "options" | "filter" | "filtered" |
                \* "stats" | "raised" | "visualized"; "wizard" in a wizard session
    callno,     \* how many times apply_cleaning_actions has been entered
    current_step,   \* st.session_state.current_step, 0..6
    mapping,        \* st.session_state.mapping, Unset until saved
    clean_df,       \* st.session_state.clean_df, Unset until set
    cleaning_log,   \* st.session_state.cleaning_log: Unset, or [entries |-> the list]
    model_results,  \* st.session_state.model_results, Unset until a model is trained
    transition_target, \* st.session_state.transition_target: Unset, or [target |-> step]
    uploaded_file,  \* the table of the file held by the uploader of step 1, or Unset
    filter_opts,    \* the dict get_dynamic_filter_options returned
    filters,        \* the filters dict handed to apply_dynamic_filters
    filtered_df,    \* the table apply_dynamic_filters returned
    stats           \* the dict compute_dynamic_stats returned

\* The session state of the wizard beyond raw_df and profile, and the dashboard
session == <<current_step, mapping, clean_df, cleaning_log, model_results,
             transition_target, uploaded_file>>
dashboard == <<filter_opts, filters, filtered_df, stats>>

vars == <<raw_df, profile, suggestions, plan, heap, dfref, actions, i, log, pc, callno,
          session, dashboard>>

\* Python's None as the value of a session key or of a result not yet computed
Unset == [none |-> TRUE]

\* No wizard session is followed and no dashboard is shown
NoSession ==
    /\ current_step = 0
    /\ mapping = Unset
    /\ clean_df = Unset
    /\ cleaning_log = Unset
    /\ model_results = Unset
    /\ transition_target = Unset
    /\ uploaded_file = Unset
NoDashboard ==
    /\ filter_opts = Unset
    /\ filters = Unset
    /\ filtered_df = Unset
    /\ stats = Unset

(***************************************************************************)
(* Text: Python str as a sequence of characters.                           *)
(***************************************************************************)
LowerLetters == <<"a", "b", "e", "f", "k", "l", "n", "o", "r", "s", "t", "u", "w", "x", "y">>
UpperLetters == <<"A", "B", "E", "F", "K", "L", "N", "O", "R", "S", "T", "U", "W", "X", "Y">>
Digits == <<"0", "1", "2", "3", "4", "5", "6", "7", "8", "9">>

IsLower(c) == \E k \in 1..Len(LowerLetters) : LowerLetters[k] = c
IsUpper(c) == \E k \in 1..Len(UpperLetters) : UpperLetters[k] = c
IsCased(c) == IsLower(c) \/ IsUpper(c)
IsDigit(c) == \E k \in 1..Len(Digits) : Digits[k] = c
IsSpace(c) == c = " "

\* str.lower() / str.upper() on one character
CharLower(c) ==
    IF IsUpper(c)
    THEN LowerLetters[CHOOSE k \in 1..Len(UpperLetters) : UpperLetters[k] = c]
    ELSE c
CharUpper(c) ==
    IF IsLower(c)
    THEN UpperLetters[CHOOSE k \in 1..Len(LowerLetters) : LowerLetters[k] = c]
    ELSE c

\* Unicode code point order of the characters used (space < - < / < digits < A-Z < a-z)
CharCode(c) ==
    IF c = " " THEN 32
    ELSE IF c = "-" THEN 45
    ELSE IF c = "/" THEN 47
    ELSE IF IsDigit(c) THEN 48 + (CHOOSE k \in 1..Len(Digits) : Digits[k] = c) - 1
    ELSE IF IsUpper(c) THEN 65 + (CHOOSE k \in 1..Len(UpperLetters) : UpperLetters[k] = c)
    ELSE 97 + (CHOOSE k \in 1..Len(LowerLetters) : LowerLetters[k] = c)

\* Python's order on str: lexicographic by code point
RECURSIVE StrLess(_, _)
StrLess(s, t) ==
    IF t = <<>> THEN FALSE
    ELSE IF s = <<>> THEN TRUE
    ELSE IF CharCode(Head(s)) # CharCode(Head(t)) THEN CharCode(Head(s)) < CharCode(Head(t))
    ELSE StrLess(Tail(s), Tail(t))

RECURSIVE LStrip(_)
LStrip(s) == IF s # <<>> /\ IsSpace(Head(s)) THEN LStrip(Tail(s)) ELSE s

RECURSIVE RStrip(_)
RStrip(s) ==
    IF s # <<>> /\ IsSpace(s[Len(s)]) THEN RStrip(SubSeq(s, 1, Len(s) - 1)) ELSE s

\* str.strip()
StrStrip(s) == RStrip(LStrip(s))

\* str.lower()
StrLower(s) == [k \in 1..Len(s) |-> CharLower(s[k])]

\* str.title(): a cased character is upper-cased when the character before it is
\* not cased (or it is the first), lower-cased otherwise
StrTitle(s) ==
    [k \in 1..Len(s) |->
        IF k > 1 /\ IsCased(s[k - 1]) THEN CharLower(s[k]) ELSE CharUpper(s[k])]

(***************************************************************************)
(* Numbers: exact rationals n/d, d > 0, in lowest terms.                   *)
(***************************************************************************)
Abs(x) == IF x < 0 THEN -x ELSE x

RECURSIVE Gcd(_, _)
Gcd(a, b) == IF b = 0 THEN a ELSE Gcd(b, a % b)

Rat(n, d) ==
    LET g == Gcd(Abs(n), Abs(d))
        s == IF d < 0 THEN -1 ELSE 1
    IN  [n |-> (s * n) \div g, d |-> (s * d) \div g]

RInt(x) == [n |-> x, d |-> 1]
RAdd(a, b) == Rat(a.n * b.d + b.n * a.d, a.d * b.d)
RSub(a, b) == Rat(a.n * b.d - b.n * a.d, a.d * b.d)
RMul(a, b) == Rat(a.n * b.n, a.d * b.d)
RDivInt(a, k) == Rat(a.n, a.d * k)
RLess(a, b) == a.n * b.d < b.n * a.d

(***************************************************************************)
(* Cells.                                                                  *)
(***************************************************************************)
NaN == [k |-> "nan"]
Num(r) == [k |-> "num", v |-> r]
Str(s) == [k |-> "str", s |-> s]
IsNull(c) == c.k = "nan"
IsNum(c) == c.k = "num"
IsStr(c) == c.k = "str"

\* The decimal value of a str of digits
RECURSIVE DigitsValue(_)
DigitsValue(s) ==
    IF s = <<>> THEN 0
    ELSE 10 * DigitsValue(SubSeq(s, 1, Len(s) - 1))
         + (CHOOSE k \in 1..Len(Digits) : Digits[k] = s[Len(s)]) - 1

\* pd.to_numeric(..., errors="coerce") on one cell.  Of the text a cell can hold
\* here only digit strings parse; every other text is coerced to NaN.
ToNumericCell(c) ==
    IF IsNum(c) THEN c
    ELSE IF IsStr(c) /\ c.s # <<>> /\ \A k \in 1..Len(c.s) : IsDigit(c.s[k])
         THEN Num(RInt(DigitsValue(c.s)))
    ELSE NaN

\* astype(str) on one cell of an object column: NaN becomes the text "nan".
\* (An object column holds only str and NaN in every state reached: see TypeOK.)
AsTypeStrCell(c) ==
    CASE IsStr(c) -> c
      [] IsNull(c) -> Str(<<"n", "a", "n">>)

\* Series.str.<method> leaves NaN as NaN
StrMethodStrip(c) == IF IsStr(c) THEN Str(StrStrip(c.s)) ELSE c
StrMethodLower(c) == IF IsStr(c) THEN Str(StrLower(c.s)) ELSE c
StrMethodTitle(c) == IF IsStr(c) THEN Str(StrTitle(c.s)) ELSE c

\* The order pandas sorts the values of one column in (numbers, or text)
CellLess(a, b) ==
    IF IsNum(a) /\ IsNum(b) THEN RLess(a.v, b.v)
    ELSE IF IsStr(a) /\ IsStr(b) THEN StrLess(a.s, b.s)
    ELSE IsNum(a) /\ IsStr(b)

(***************************************************************************)
(* Series helpers (a Series is a sequence of cells).                       *)
(***************************************************************************)
SeqToSet(s) == {s[k] : k \in 1..Len(s)}
DropNa(s) == SelectSeq(s, LAMBDA c : ~IsNull(c))
\* (mutant) isnull().sum() that does not see a null in the first row
NullCountAfterFirst(s) == Cardinality({k \in 2..Len(s) : IsNull(s[k])})
\* isnull().sum()
NullCount(s) == Cardinality({k \in 1..Len(s) : IsNull(s[k])})
ToNumericSeries(s) == [k \in 1..Len(s) |-> ToNumericCell(s[k])]
NUnique(s) == Cardinality(SeqToSet(DropNa(s)))
CountOf(s, c) == Cardinality({k \in 1..Len(s) : s[k] = c})

\* The rank of s[j] in ascending order: the cells below it, and its equals up to it
Rank(s, j) ==
    Cardinality({k \in 1..Len(s) : CellLess(s[k], s[j]) \/ (s[k] = s[j] /\ k <= j)})

Ranked(s) == {<<Rank(s, j), s[j]>> : j \in 1..Len(s)}

Placed(ranked, n) == SubSeq([k \in 1..n |-> (CHOOSE p \in ranked : p[1] = k)[2]], 1, n)

\* The non-null numbers of a Series in ascending order
SortCells(s) == Placed(Ranked(s), Len(s))

\* Series.quantile(q) for q = quarters/4, linear interpolation, NaN skipped
Quantile(s, quarters) ==
    LET v == SortCells(DropNa(s))
        n == Len(v)
        lo == (quarters * (n - 1)) \div 4
        fr == (quarters * (n - 1)) % 4
    IN  IF n = 0 THEN NaN
        ELSE IF fr = 0 THEN v[lo + 1]
        ELSE Num(RAdd(v[lo + 1].v,
                      RDivInt(RMul(RInt(fr), RSub(v[lo + 2].v, v[lo + 1].v)), 4)))

\* Series.median(): NaN skipped, NaN when nothing is left
Median(s) ==
    LET v == SortCells(DropNa(s))
        n == Len(v)
    IN  IF n = 0 THEN NaN
        ELSE IF n % 2 = 1 THEN v[(n + 1) \div 2]
        ELSE Num(RDivInt(RAdd(v[n \div 2].v, v[n \div 2 + 1].v), 2))

\* The sum of the numbers s[lo..hi], halving the range
RECURSIVE SumRange(_, _, _)
SumRange(s, lo, hi) ==
    IF lo > hi THEN RInt(0)
    ELSE IF lo = hi THEN s[lo].v
    ELSE RAdd(SumRange(s, lo, (lo + hi) \div 2), SumRange(s, (lo + hi) \div 2 + 1, hi))

SumCells(s) == SumRange(s, 1, Len(s))

\* Series.mean(): NaN skipped, NaN when nothing is left
Mean(s) ==
    LET v == DropNa(s)
    IN  IF v = <<>> THEN NaN ELSE Num(RDivInt(SumCells(v), Len(v)))

\* The cells of a set in ascending order
RECURSIVE SortSet(_)
SortSet(S) ==
    IF S = {} THEN <<>>
    ELSE LET m == CHOOSE x \in S : \A y \in S : ~CellLess(y, x)
         IN  <<m>> \o SortSet(S \ {m})

\* Series.mode(): the most frequent non-null values, ascending
Mode(s) ==
    LET v == DropNa(s)
    IN  SortSet({c \in SeqToSet(v) : \A e \in SeqToSet(v) : CountOf(v, e) <= CountOf(v, c)})

\* Series.fillna(value)
FillNa(s, value) == [k \in 1..Len(s) |-> IF IsNull(s[k]) THEN value ELSE s[k]]

\* Series.clip(lower, upper): a NaN threshold bounds nothing, NaN stays NaN
ClipCell(c, lower, upper) ==
    IF IsNull(c) THEN c
    ELSE IF ~IsNull(lower) /\ RLess(c.v, lower.v) THEN lower
    ELSE IF ~IsNull(upper) /\ RLess(upper.v, c.v) THEN upper
    ELSE c

\* round(x * 10^places) to an integer, ties to even: the integer that
\* round(x, 2) and the format {x:.2f} keep (places = 2) or {x:.1f} (places = 1)
RoundScaled(r, scale) ==
    LET num == r.n * scale
        fl == IF num >= 0 THEN num \div r.d ELSE -((-num + r.d - 1) \div r.d)
        rem2 == 2 * (num - fl * r.d)
    IN  IF rem2 < r.d THEN fl
        ELSE IF rem2 > r.d THEN fl + 1
        ELSE IF fl % 2 = 0 THEN fl ELSE fl + 1

\* f"{x:.2f}" of a float: the hundredths kept, or the text nan
Format2f(c) == IF IsNull(c) THEN [nan |-> TRUE] ELSE [hundredths |-> RoundScaled(c.v, 100)]

(***************************************************************************)
(* DataFrames.                                                             *)
(***************************************************************************)
NoDf == [cols |-> <<>>, dtype |-> <<>>, rows |-> <<>>]

\* `col in df.columns`
HasColumn(df, col) == \E k \in 1..Len(df.cols) : df.cols[k] = col

\* df[col]
Column(df, col) == [r \in 1..Len(df.rows) |-> df.rows[r][col]]

\* df[col] = series (column present): the cells and the storage type are replaced
SetColumn(df, col, series, dt) ==
    [df EXCEPT !.rows = [r \in 1..Len(df.rows) |-> [df.rows[r] EXCEPT ![col] = series[r]]],
               !.dtype = [df.dtype EXCEPT ![col] = dt]]

\* The rows of a sequence whose position satisfies keep
RECURSIVE KeepRows(_, _, _)
KeepRows(rows, keep, k) ==
    IF k > Len(rows) THEN <<>>
    ELSE (IF keep[k] THEN <<rows[k]>> ELSE <<>>) \o KeepRows(rows, keep, k + 1)

\* df.duplicated(): a row is marked when an equal row (NaN equal to NaN) comes
\* earlier; a frame with no row or no column has no duplicate
Duplicated(df) ==
    [r \in 1..Len(df.rows) |->
        df.cols # <<>> /\ \E q \in 1..(r - 1) : df.rows[q] = df.rows[r]]

\* (mutant) drop_duplicates(keep=False): every row that has a twin goes
DropDuplicatesKeepNone(df) ==
    [df EXCEPT !.rows = KeepRows(df.rows,
        [r \in 1..Len(df.rows) |-> ~\E q \in 1..Len(df.rows) : q # r /\ df.rows[q] = df.rows[r]], 1)]

\* df.drop_duplicates(): keep="first"
DropDuplicates(df) ==
    LET dup == Duplicated(df)
    IN  [df EXCEPT !.rows = KeepRows(df.rows, [r \in 1..Len(df.rows) |-> ~dup[r]], 1)]

\* df.dropna(subset=[col])
DropNaRows(df, col) ==
    [df EXCEPT !.rows = KeepRows(df.rows, [r \in 1..Len(df.rows) |-> ~IsNull(df.rows[r][col])], 1)]

\* df.drop(columns=[col])
DropColumn(df, col) ==
    LET cs == SelectSeq(df.cols, LAMBDA c : c # col)
        names == {cs[k] : k \in 1..Len(cs)}
    IN  [cols |-> cs,
         dtype |-> [c \in names |-> df.dtype[c]],
         rows |-> [r \in 1..Len(df.rows) |-> [c \in names |-> df.rows[r][c]]]]

(***************************************************************************)
(* Cleaning executor: the branches of apply_cleaning_actions.              *)
(***************************************************************************)
None == "None"

\* dict.get(key, default)
Get(d, key, default) == IF key \in DOMAIN d THEN d[key] ELSE default

\* (mutant) the chain with drop_column not asking whether the column is there
BranchDropUnchecked(df, action) ==
    LET act_type == action.action
        col == Get(action, "column", None)
    IN  IF act_type = "remove_duplicates" THEN "remove_duplicates"
        ELSE IF act_type = "strip_whitespace" /\ HasColumn(df, col) THEN "strip_whitespace"
        ELSE IF act_type = "standardize_case" /\ HasColumn(df, col) THEN "standardize_case"
        ELSE IF act_type = "impute_missing" /\ HasColumn(df, col) THEN "impute_missing"
        ELSE IF act_type = "clip_outliers" /\ HasColumn(df, col) THEN "clip_outliers"
        ELSE IF act_type = "drop_column" THEN "drop_column"
        ELSE IF act_type = "convert_numeric" /\ HasColumn(df, col) THEN "convert_numeric"
        ELSE "none"

\* The branch of the if/elif chain that an action takes on the working table
Branch(df, action) ==
    LET act_type == action.action
        col == Get(action, "column", None)
    IN  IF act_type = "remove_duplicates" THEN "remove_duplicates"
        ELSE IF act_type = "strip_whitespace" /\ HasColumn(df, col) THEN "strip_whitespace"
        ELSE IF act_type = "standardize_case" /\ HasColumn(df, col) THEN "standardize_case"
        ELSE IF act_type = "impute_missing" /\ HasColumn(df, col) THEN "impute_missing"
        ELSE IF act_type = "clip_outliers" /\ HasColumn(df, col) THEN "clip_outliers"
        ELSE IF act_type = "drop_column" /\ HasColumn(df, col) THEN "drop_column"
        ELSE IF act_type = "convert_numeric" /\ HasColumn(df, col) THEN "convert_numeric"
        ELSE "none"

\* df[col].astype(str).str.strip()
StripSeries(series) == [k \in 1..Len(series) |-> StrMethodStrip(AsTypeStrCell(series[k]))]

\* (mutant) the chain without its .str.title()
TitleSeriesNoTitle(series) ==
    [k \in 1..Len(series) |-> StrMethodStrip(AsTypeStrCell(series[k]))]

\* df[col].astype(str).str.strip().str.title()
TitleSeries(series) ==
    [k \in 1..Len(series) |-> StrMethodTitle(StrMethodStrip(AsTypeStrCell(series[k])))]

\* strip_whitespace branch: only a column stored as object is rewritten (and logged)
StripWhitespace(df, col) ==
    IF df.dtype[col] = "object"
    THEN [df |-> SetColumn(df, col, StripSeries(Column(df, col)), "object"),
          log |-> <<[text |-> "Stripped whitespace from '{col}'", col |-> col]>>]
    ELSE [df |-> df, log |-> <<>>]

\* standardize_case branch
StandardizeCase(df, col) ==
    IF df.dtype[col] = "object"
    THEN [df |-> SetColumn(df, col, TitleSeries(Column(df, col)), "object"),
          log |-> <<[text |-> "Standardized casing in '{col}' to title case", col |-> col]>>]
    ELSE [df |-> df, log |-> <<>>]

\* The characters of a method string that names no method (a custom fill value)
Chars(method) ==
    CASE method = "0" -> <<"0">>
      [] method = "none" -> <<"n", "o", "n", "e">>

\* (mutant) the fill value computed from the column of the table as loaded
FillValueFromRaw(series, method) ==
    IF method = "median" THEN Median(ToNumericSeries(Column(raw_df, "num")))
    ELSE IF method = "mean" THEN Mean(ToNumericSeries(Column(raw_df, "num")))
    ELSE IF method = "mode"
         THEN (IF Len(Mode(Column(raw_df, "num"))) > 0 THEN Mode(Column(raw_df, "num"))[1]
               ELSE Str(<<"U", "n", "k", "n", "o", "w", "n">>))
    ELSE IF method = "drop" THEN [text |-> "N/A (rows dropped)"]
    ELSE Str(Chars(method))

\* The fill value of impute_missing, computed from the column as it stands
FillValue(series, method) ==
    IF method = "median" THEN Median(ToNumericSeries(series))
    ELSE IF method = "mean" THEN Mean(ToNumericSeries(series))
    ELSE IF method = "mode"
         THEN (IF Len(Mode(series)) > 0 THEN Mode(series)[1]
               ELSE Str(<<"U", "n", "k", "n", "o", "w", "n">>))
    ELSE IF method = "drop" THEN [text |-> "N/A (rows dropped)"]
    ELSE Str(Chars(method))

\* impute_missing branch: nothing happens (and nothing is logged) without a null;
\* rebinds tells whether `df` is bound to a new frame (method drop)
ImputeMissing(df, col, method) ==
    LET series == Column(df, col)
        null_count == NullCount(series)
        fill_val == FillValue(series, method)
        filled ==
            IF method \in {"median", "mean"}
            THEN SetColumn(df, col, FillNa(ToNumericSeries(series), fill_val), "float64")
            ELSE IF method = "drop" THEN DropNaRows(df, col)
            ELSE SetColumn(df, col, FillNa(series, fill_val),
                           IF IsStr(fill_val) THEN "object" ELSE df.dtype[col])
    IN  IF null_count > 0
        THEN [df |-> filled, rebinds |-> method = "drop",
              log |-> <<[text |-> "Filled {null_count} missing values in '{col}' with {method} ({fill_val})",
                         null_count |-> null_count, col |-> col, method |-> method,
                         fill_val |-> fill_val]>>]
        ELSE [df |-> df, rebinds |-> FALSE, log |-> <<>>]

\* clip_outliers branch: the bounds come from the column's current values
ClipOutliers(df, col) ==
    LET numeric_col == ToNumericSeries(Column(df, col))
        q1 == Quantile(numeric_col, 1)
        q3 == Quantile(numeric_col, 3)
        iqr == IF IsNull(q1) THEN NaN ELSE Num(RSub(q3.v, q1.v))
        lower == IF IsNull(q1) THEN NaN
                 ELSE Num(RSub(q1.v, RDivInt(RMul(RInt(3), iqr.v), 2)))
        upper == IF IsNull(q1) THEN NaN
                 ELSE Num(RAdd(q3.v, RDivInt(RMul(RInt(3), iqr.v), 2)))
        clipped == [k \in 1..Len(numeric_col) |-> ClipCell(numeric_col[k], lower, upper)]
        \* (numeric_col != clipped).sum(): NaN != NaN is True
        changed == Cardinality({k \in 1..Len(numeric_col) :
                                   IsNull(numeric_col[k]) \/ numeric_col[k] # clipped[k]})
    IN  [df |-> SetColumn(df, col, clipped, "float64"),
         log |-> <<[text |-> "Clipped {changed} outlier values in '{col}' to [{lower:.2f}, {upper:.2f}]",
                    changed |-> changed, col |-> col,
                    lower |-> Format2f(lower), upper |-> Format2f(upper)]>>]

\* convert_numeric branch
ConvertNumeric(df, col) ==
    [df |-> SetColumn(df, col, ToNumericSeries(Column(df, col)), "float64"),
     log |-> <<[text |-> "Converted '{col}' to numeric type", col |-> col]>>]

\* remove_duplicates branch
RemoveDuplicates(df) ==
    LET before == Len(df.rows)
        out == DropDuplicates(df)
        removed == before - Len(out.rows)
    IN  [df |-> out,
         log |-> <<[text |-> "Removed {removed} duplicate rows", removed |-> removed]>>]

\* drop_column branch
DropColumnAction(df, col) ==
    [df |-> DropColumn(df, col), log |-> <<[text |-> "Dropped column '{col}'", col |-> col]>>]

(***************************************************************************)
(* Profiler.                                                               *)
(***************************************************************************)
\* re.match(r"\d{4}[-/]\d{1,2}[-/]\d{1,2}", s): anchored at the start only
IsDateSep(c) == c = "-" \/ c = "/"
MatchesDate(s) ==
    /\ Len(s) >= 8
    /\ \A k \in 1..4 : IsDigit(s[k])
    /\ IsDateSep(s[5])
    /\ IsDigit(s[6])
    /\ \/ IsDateSep(s[7]) /\ IsDigit(s[8])
       \/ Len(s) >= 9 /\ IsDigit(s[7]) /\ IsDateSep(s[8]) /\ IsDigit(s[9])

BooleanWords ==
    { <<"t", "r", "u", "e">>, <<"f", "a", "l", "s", "e">>, <<"0">>, <<"1">>,
      <<"y", "e", "s">>, <<"n", "o">>, <<"y">>, <<"n">> }

IsNumericDtype(dt) == dt \in {"int64", "float64", "int32", "float32"}

\* (mutant) the inference without the shortcut for native numeric storage
InferSemanticTypeNoDtype(series, dt) ==
    LET nonnull == DropNa(series)
        n == Len(nonnull)
        parsed == Len(DropNa(ToNumericSeries(nonnull)))
    IN  IF n > 0 /\ 10 * parsed > 8 * n THEN "numeric"
        ELSE IF n = 0 THEN "boolean"
        ELSE "categorical"

\* _infer_semantic_type: a mean over no value is NaN, and NaN > 0.8 is False
InferSemanticType(series, dt) ==
    LET nonnull == DropNa(series)
        n == Len(nonnull)
        parsed == Len(DropNa(ToNumericSeries(nonnull)))
        dates == Cardinality({k \in 1..n : MatchesDate(AsTypeStrCell(nonnull[k]).s)})
        unique_lower == {StrLower(AsTypeStrCell(nonnull[k]).s) : k \in 1..n}
    IN  IF IsNumericDtype(dt) THEN "numeric"
        ELSE IF n > 0 /\ 10 * parsed > 8 * n THEN "numeric"
        ELSE IF n > 0 /\ 10 * dates > 8 * n THEN "datetime"
        ELSE IF unique_lower \subseteq BooleanWords THEN "boolean"
        ELSE "categorical"

\* round(x, 2) of a float that may be NaN
Round2(c) == IF IsNull(c) THEN NaN ELSE Num(Rat(RoundScaled(c.v, 100), 100))

\* (mutant) x >= k in place of x > k
NumGeq(c, k) == ~IsNull(c) /\ ~RLess(c.v, RInt(k))

\* x > k for a float x that may be NaN (a comparison with NaN is False)
NumGt(c, k) == ~IsNull(c) /\ RLess(RInt(k), c.v)

\* (mutant) the checks reporting outliers of binary and of zero-IQR columns too
IqrIssuesNoSkip(numeric_series, q1, q3, min) ==
    LET iqr == RSub(q3.v, q1.v)
        lower == RSub(q1.v, RDivInt(RMul(RInt(3), iqr), 2))
        upper == RAdd(q3.v, RDivInt(RMul(RInt(3), iqr), 2))
        outliers == Cardinality({k \in 1..Len(numeric_series) :
                        RLess(numeric_series[k].v, lower) \/ RLess(upper, numeric_series[k].v)})
    IN  (IF outliers > 0
         THEN <<[type |-> "outliers",
                 severity |-> IF 100 * outliers < 5 * Len(numeric_series)
                              THEN "medium" ELSE "high",
                 description |-> [outliers |-> outliers,
                                  lower |-> RoundScaled(lower, 10),
                                  upper |-> RoundScaled(upper, 10)]]>>
         ELSE <<>>)
        \o
        (IF RLess(min.v, RInt(0))
         THEN <<[type |-> "negative_values", severity |-> "low",
                 description |-> [min |-> Format2f(min)]]>>
         ELSE <<>>)

\* The outliers and negative_values checks, given the quartiles and the minimum
IqrIssues(numeric_series, q1, q3, min) ==
    LET iqr == RSub(q3.v, q1.v)
        is_binary == SeqToSet(numeric_series) \subseteq {Num(RInt(0)), Num(RInt(1))}
        lower == RSub(q1.v, RDivInt(RMul(RInt(3), iqr), 2))
        upper == RAdd(q3.v, RDivInt(RMul(RInt(3), iqr), 2))
        outliers == Cardinality({k \in 1..Len(numeric_series) :
                        RLess(numeric_series[k].v, lower) \/ RLess(upper, numeric_series[k].v)})
    IN  (IF outliers > 0 /\ ~is_binary /\ RLess(RInt(0), iqr)
         THEN <<[type |-> "outliers",
                 severity |-> IF 100 * outliers < 5 * Len(numeric_series)
                              THEN "medium" ELSE "high",
                 description |-> [outliers |-> outliers,
                                  lower |-> RoundScaled(lower, 10),
                                  upper |-> RoundScaled(upper, 10)]]>>
         ELSE <<>>)
        \o
        (IF RLess(min.v, RInt(0))
         THEN <<[type |-> "negative_values", severity |-> "low",
                 description |-> [min |-> Format2f(min)]]>>
         ELSE <<>>)

\* The numeric-specific issues of _profile_column (outliers, negative_values)
NumericIssues(numeric_series) ==
    IqrIssues(numeric_series, Quantile(numeric_series, 1), Quantile(numeric_series, 3),
              SortCells(numeric_series)[1])

\* info["stats"]["outlier_count"] = int(outliers), set where outliers are reported
WithOutlierCount(col_stats, issues) ==
    IF issues # <<>> /\ issues[1].type = "outliers"
    THEN col_stats @@ [outlier_count |-> issues[1].description.outliers]
    ELSE col_stats

\* The stats entry of a numeric column with at least one parsed value
\* (std, a square root, is left out)
NumericStats(numeric_series, issues) ==
    WithOutlierCount([mean |-> Round2(Mean(numeric_series)),
                      median |-> Round2(Median(numeric_series)),
                      min |-> Round2(SortCells(numeric_series)[1]),
                      max |-> Round2(SortCells(numeric_series)[Len(numeric_series)]),
                      q1 |-> Round2(Quantile(numeric_series, 1)),
                      q3 |-> Round2(Quantile(numeric_series, 3))],
                     issues)

\* The categorical-specific issues (high_cardinality, whitespace, case_inconsistency)
TextIssues(str_values, stripped, unique_count, unique_pct) ==
    LET whitespace_issues == Cardinality({k \in 1..Len(str_values) : str_values[k] # stripped[k]})
        lowered == [k \in 1..Len(stripped) |-> StrMethodLower(stripped[k])]
    IN  (IF unique_count > 50 /\ NumGt(unique_pct, 50)
         THEN <<[type |-> "high_cardinality", severity |-> "medium",
                 description |-> [unique_count |-> unique_count]]>>
         ELSE <<>>)
        \o
        (IF whitespace_issues > 0
         THEN <<[type |-> "whitespace", severity |-> "low",
                 description |-> [whitespace_issues |-> whitespace_issues]]>>
         ELSE <<>>)
        \o
        (IF NUnique(lowered) < NUnique(stripped)
         THEN <<[type |-> "case_inconsistency", severity |-> "medium",
                 description |-> [text |-> "Possible case inconsistencies"]]>>
         ELSE <<>>)

CategoricalIssues(series, unique_count, unique_pct) ==
    TextIssues([k \in 1..Len(DropNa(series)) |-> AsTypeStrCell(DropNa(series)[k])],
               [k \in 1..Len(DropNa(series)) |-> StrMethodStrip(AsTypeStrCell(DropNa(series)[k]))],
               unique_count, unique_pct)

\* info["stats"] = {...}, set for a numeric column with at least one parsed value
WithStats(info, numeric_series) ==
    IF info.inferred_type = "numeric" /\ Len(numeric_series) > 0
    THEN info @@ [stats |-> NumericStats(numeric_series, NumericIssues(numeric_series))]
    ELSE info

\* The body of _profile_column, given the inferred type and the parsed values
ProfileSeries(series, dtype, inferred_type, numeric_series) ==
    LET len == Len(series)
        non_null == Len(DropNa(series))
        null_count == NullCount(series)
        null_pct == IF len = 0 THEN NaN ELSE Round2(Num(Rat(null_count * 100, len)))
        unique_count == NUnique(series)
        unique_pct == IF len > 0 THEN Round2(Num(Rat(unique_count * 100, len)))
                      ELSE Num(RInt(0))
        missing ==
            IF NumGt(null_pct, 0)
            THEN <<[type |-> "missing_values",
                    severity |-> IF NumGt(null_pct, 20) THEN "high"
                                 ELSE IF NumGt(null_pct, 5) THEN "medium" ELSE "low",
                    description |-> [null_count |-> null_count, null_pct |-> null_pct]]>>
            ELSE <<>>
        typed ==
            IF inferred_type = "numeric"
            THEN (IF Len(numeric_series) > 0 THEN NumericIssues(numeric_series) ELSE <<>>)
            ELSE IF inferred_type = "categorical"
            THEN CategoricalIssues(series, unique_count, unique_pct)
            ELSE <<>>
        constant ==
            IF unique_count <= 1 /\ non_null > 0
            THEN <<[type |-> "constant", severity |-> "medium",
                    description |-> [text |-> "Column has only one unique value"]]>>
            ELSE <<>>
    IN  WithStats([dtype |-> dtype,
                   non_null |-> non_null,
                   null_count |-> null_count,
                   null_pct |-> null_pct,
                   unique_count |-> unique_count,
                   unique_pct |-> unique_pct,
                   inferred_type |-> inferred_type,
                   issues |-> missing \o typed \o constant],
                  numeric_series)

\* _profile_column (sample_values and top_values, display only, are left out)
ProfileColumn(df, col) ==
    ProfileSeries(Column(df, col), df.dtype[col],
                  InferSemanticType(Column(df, col), df.dtype[col]),
                  DropNa(ToNumericSeries(Column(df, col))))

\* The cells of a frame that are null: df.isnull().sum().sum()
TotalMissing(df) ==
    Cardinality({<<r, k>> \in (1..Len(df.rows)) \X (1..Len(df.cols)) :
                    IsNull(df.rows[r][df.cols[k]])})

RECURSIVE FlattenIssues(_, _, _)
FlattenIssues(cols, columns, k) ==
    IF k > Len(cols) THEN <<>>
    ELSE [j \in 1..Len(columns[cols[k]].issues) |->
             [column |-> cols[k], issue |-> columns[cols[k]].issues[j]]]
         \o FlattenIssues(cols, columns, k + 1)

\* profile["issues"].extend(...): the issues of every column, in column order
WithIssues(prof) == prof @@ [issues |-> FlattenIssues(prof.cols, prof.columns, 1)]

\* profile_dataset (memory_mb is left out); cols is the key order of "columns"
ProfileDataset(df) ==
    LET rows == Len(df.rows)
        total_cells == rows * Len(df.cols)
        total_missing == TotalMissing(df)
        total_duplicates == Cardinality({r \in 1..rows : Duplicated(df)[r]})
    IN  WithIssues([shape |-> [rows |-> rows, columns |-> Len(df.cols)],
         summary |-> [total_cells |-> total_cells,
                      total_missing |-> total_missing,
                      missing_pct |-> IF total_cells > 0
                                      THEN Round2(Num(Rat(total_missing * 100, total_cells)))
                                      ELSE Num(RInt(0)),
                      duplicate_rows |-> total_duplicates,
                      duplicate_pct |-> IF rows > 0
                                        THEN Round2(Num(Rat(total_duplicates * 100, rows)))
                                        ELSE Num(RInt(0))],
         cols |-> df.cols,
         columns |-> [c \in SeqToSet(df.cols) |-> ProfileColumn(df, c)]])

(***************************************************************************)
(* Column mapping suggester.  A column name is a str, a sequence of        *)
(* characters, where the suggester reads it.                               *)
(***************************************************************************)
\* str.replace(a, b) for one-character a and b
StrReplace(s, a, b) == [k \in 1..Len(s) |-> IF s[k] = a THEN b ELSE s[k]]

\* col.lower().replace("_", " ").replace("-", " ")
NormaliseName(name) == StrReplace(StrReplace(StrLower(name), "_", " "), "-", " ")

\* kw in col_lower: kw is a substring of col_lower
Contains(kw, s) == \E k \in 0..(Len(s) - Len(kw)) : SubSeq(s, k + 1, k + Len(kw)) = kw

IdKeywords ==
    { <<"i", "d">>, <<"i", "d", "e", "n", "t", "i", "f", "i", "e", "r">>,
      <<"k", "e", "y">>, <<"i", "n", "d", "e", "x">> }
TargetKeywords ==
    { <<"p", "a", "s", "s">>, <<"f", "a", "i", "l">>,
      <<"t", "a", "r", "g", "e", "t">>,
      <<"o", "u", "t", "c", "o", "m", "e">>,
      <<"r", "e", "s", "u", "l", "t">>, <<"l", "a", "b", "e", "l">>,
      <<"g", "r", "a", "d", "e">>, <<"s", "c", "o", "r", "e">>,
      <<"s", "t", "a", "t", "u", "s">> }
DateKeywords ==
    { <<"d", "a", "t", "e">>, <<"t", "i", "m", "e">>,
      <<"y", "e", "a", "r">>, <<"s", "e", "m", "e", "s", "t", "e", "r">>,
      <<"q", "u", "a", "r", "t", "e", "r">>, <<"m", "o", "n", "t", "h">>,
      <<"p", "e", "r", "i", "o", "d">> }

\* any(kw in col_lower for kw in keywords)
AnyKeyword(keywords, col_lower) == \E kw \in keywords : Contains(kw, col_lower)

\* None in the slot of a role no column holds
NoColumn == <<"None">>

NoSuggestions == [none |-> TRUE]

\* Target/outcome detection
AssignTarget(sug, c, col_lower) ==
    IF AnyKeyword(TargetKeywords, col_lower) /\ sug.target_column = NoColumn
    THEN [sug EXCEPT !.target_column = c]
    ELSE sug

\* Date detection
AssignDate(sug, c, col_lower, inferred) ==
    IF (inferred = "datetime" \/ AnyKeyword(DateKeywords, col_lower))
       /\ sug.date_column = NoColumn
    THEN [sug EXCEPT !.date_column = c]
    ELSE sug

\* Numeric vs categorical
AppendFeature(sug, c, inferred) ==
    IF inferred = "numeric"
    THEN [sug EXCEPT !.numeric_columns = Append(@, c)]
    ELSE IF inferred \in {"categorical", "boolean"}
    THEN [sug EXCEPT !.categorical_columns = Append(@, c)]
    ELSE sug

\* (mutant) the iteration without the continue after the id is taken
SuggestColumnNoContinue(sug, c, col_lower, inferred) ==
    AppendFeature(
        AssignDate(
            AssignTarget(IF AnyKeyword(IdKeywords, col_lower) /\ sug.id_column = NoColumn
                         THEN [sug EXCEPT !.id_column = c] ELSE sug,
                         c, col_lower),
            c, col_lower, inferred),
        c, inferred)

\* One iteration of the loop over df.columns; a column taken as the id
\* leaves the iteration at once (continue)
SuggestColumn(sug, c, col_lower, inferred) ==
    IF AnyKeyword(IdKeywords, col_lower) /\ sug.id_column = NoColumn
    THEN [sug EXCEPT !.id_column = c]
    ELSE AppendFeature(AssignDate(AssignTarget(sug, c, col_lower), c, col_lower, inferred),
                       c, inferred)

RECURSIVE SuggestLoop(_, _)
SuggestLoop(df, k) ==
    IF k = 0
    THEN [id_column |-> NoColumn, target_column |-> NoColumn, numeric_columns |-> <<>>,
          categorical_columns |-> <<>>, date_column |-> NoColumn]
    ELSE SuggestColumn(SuggestLoop(df, k - 1), df.cols[k], NormaliseName(df.cols[k]),
                       InferSemanticType(Column(df, df.cols[k]), df.dtype[df.cols[k]]))

\* suggest_column_mapping
SuggestColumnMapping(df) == SuggestLoop(df, Len(df.cols))

(***************************************************************************)
(* Cleaning plan generator.                                                *)
(***************************************************************************)
\* (mutant) impute_missing with the method chosen the other way round
IssueActionMethodSwapped(col, info, issue) ==
    IF issue.type = "whitespace"
    THEN <<[action |-> "strip_whitespace", column |-> col,
            impact |-> issue.description, auto |-> TRUE]>>
    ELSE IF issue.type = "case_inconsistency"
    THEN <<[action |-> "standardize_case", column |-> col,
            impact |-> issue.description, auto |-> TRUE]>>
    ELSE IF issue.type = "missing_values"
    THEN <<[action |-> "impute_missing", column |-> col,
            method |-> IF info.inferred_type = "numeric" THEN "mode" ELSE "median",
            impact |-> issue.description, auto |-> TRUE]>>
    ELSE IF issue.type = "outliers"
    THEN <<[action |-> "clip_outliers", column |-> col,
            impact |-> issue.description, auto |-> FALSE]>>
    ELSE IF issue.type = "constant"
    THEN <<[action |-> "drop_column", column |-> col,
            impact |-> issue.description, auto |-> FALSE]>>
    ELSE <<>>

\* The action one issue of a column compiles to (none for the informational ones)
IssueAction(col, info, issue) ==
    IF issue.type = "whitespace"
    THEN <<[action |-> "strip_whitespace", column |-> col,
            impact |-> issue.description, auto |-> TRUE]>>
    ELSE IF issue.type = "case_inconsistency"
    THEN <<[action |-> "standardize_case", column |-> col,
            impact |-> issue.description, auto |-> TRUE]>>
    ELSE IF issue.type = "missing_values"
    THEN <<[action |-> "impute_missing", column |-> col,
            method |-> IF info.inferred_type = "numeric" THEN "median" ELSE "mode",
            impact |-> issue.description, auto |-> TRUE]>>
    ELSE IF issue.type = "outliers"
    THEN <<[action |-> "clip_outliers", column |-> col,
            impact |-> issue.description, auto |-> FALSE]>>
    ELSE IF issue.type = "constant"
    THEN <<[action |-> "drop_column", column |-> col,
            impact |-> issue.description, auto |-> FALSE]>>
    ELSE <<>>

RECURSIVE ColumnActions(_, _, _)
ColumnActions(col, info, k) ==
    IF k > Len(info.issues) THEN <<>>
    ELSE IssueAction(col, info, info.issues[k]) \o ColumnActions(col, info, k + 1)

RECURSIVE ColumnLevelFixes(_, _)
ColumnLevelFixes(prof, k) ==
    IF k > Len(prof.cols) THEN <<>>
    ELSE ColumnActions(prof.cols[k], prof.columns[prof.cols[k]], 1)
         \o ColumnLevelFixes(prof, k + 1)

\* The "Duplicates first" part of generate_cleaning_plan
DuplicatesFirst(prof) ==
    IF prof.summary.duplicate_rows > 0
    THEN <<[action |-> "remove_duplicates",
            description |-> [duplicate_rows |-> prof.summary.duplicate_rows],
            impact |-> [from |-> prof.shape.rows,
                        to |-> prof.shape.rows - prof.summary.duplicate_rows],
            auto |-> TRUE]>>
    ELSE <<>>

\* (mutant) the duplicates action appended after the column-level fixes
GenerateCleaningPlanDuplicatesLast(prof) ==
    ColumnLevelFixes(prof, 1) \o DuplicatesFirst(prof)

\* generate_cleaning_plan
GenerateCleaningPlan(prof) == DuplicatesFirst(prof) \o ColumnLevelFixes(prof, 1)

(***************************************************************************)
(* Bounds and input pools.                                                 *)
(***************************************************************************)
MaxRows == 2        \* rows of a table handed to the executor
MaxActions == 2     \* length of an action list chosen freely
MaxCalls == 2       \* calls of apply_cleaning_actions in a row (output fed back in)

\* Rows over the columns cat (text) and num (number) the tables are built from
RowPool ==
    { [cat |-> Str(<<" ", "a">>), num |-> Num(RInt(1))],
      [cat |-> Str(<<"a">>), num |-> Num(RInt(1))],
      [cat |-> NaN, num |-> Num(RInt(1))],
      [cat |-> Str(<<"a">>), num |-> NaN] }

\* The storage type read_csv gives a column of these cells (a column of no
\* row at all, as in a file of a header line only, is stored as object)
ReadCsvDtype(series) ==
    IF series = <<>> THEN "object"
    ELSE IF \E k \in 1..Len(series) : IsStr(series[k]) THEN "object"
    ELSE IF \E k \in 1..Len(series) : IsNull(series[k]) THEN "float64"
    ELSE "int64"

\* The frame read_csv builds from rows over the columns cols
Frame(cols, rows) ==
    [cols |-> cols,
     dtype |-> [c \in SeqToSet(cols) |-> ReadCsvDtype([r \in 1..Len(rows) |-> rows[r][c]])],
     rows |-> rows]

SeqsUpTo(S, n) == UNION {[1..m -> S] : m \in 0..n}

Tables == {Frame(<<"cat", "num">>, rows) : rows \in SeqsUpTo(RowPool, MaxRows)}

ActionPool ==
    { [action |-> "remove_duplicates"],
      [action |-> "strip_whitespace", column |-> "cat"],
      [action |-> "standardize_case", column |-> "cat"],
      [action |-> "impute_missing", column |-> "num"],
      [action |-> "clip_outliers", column |-> "num"],
      [action |-> "drop_column", column |-> "cat"],
      [action |-> "convert_numeric", column |-> "cat"],
      [action |-> "fix_typos", column |-> "cat"] }

(***************************************************************************)
(* apply_cleaning_actions as a state machine: the call, one step per       *)
(* iteration of the for loop, the return.                                  *)
(***************************************************************************)
\* (mutant) no copy: df stays bound to the caller's frame
DfCopyRefAlias(ref) == ref

\* The object `df.copy()` returns: a new frame, never the caller's
DfCopyRef(ref) == "local"

df == heap[dfref]
action == actions[i]
col == Get(action, "column", None)
InLoop(branch) == pc = "loop" /\ i <= Len(actions) /\ Branch(df, action) = branch

\* `df[col] = ...`: the frame bound to df is changed in place
AssignInPlace(res) ==
    /\ heap' = [heap EXCEPT ![dfref] = res.df]
    /\ dfref' = dfref

\* `df = df.<method>(...)`: df is bound to the new frame the method returns
Rebind(res) ==
    /\ heap' = [heap EXCEPT !["local"] = res.df]
    /\ dfref' = "local"

Advance(res) ==
    /\ log' = log \o res.log
    /\ i' = i + 1
    /\ UNCHANGED <<raw_df, profile, suggestions, plan, actions, pc, callno, session, dashboard>>

\* lines 9-10: df = df.copy(); log = []
Call ==
    /\ pc = "call"
    /\ heap' = [heap EXCEPT ![DfCopyRef(dfref)] = heap[dfref]]
    /\ dfref' = DfCopyRef(dfref)
    /\ log' = <<>>
    /\ i' = 1
    /\ pc' = "loop"
    /\ callno' = callno + 1
    /\ UNCHANGED <<raw_df, profile, suggestions, plan, actions, session, dashboard>>

IterRemoveDuplicates ==
    /\ InLoop("remove_duplicates")
    /\ Rebind(RemoveDuplicates(df))
    /\ Advance(RemoveDuplicates(df))

IterStripWhitespace ==
    /\ InLoop("strip_whitespace")
    /\ AssignInPlace(StripWhitespace(df, col))
    /\ Advance(StripWhitespace(df, col))

IterStandardizeCase ==
    /\ InLoop("standardize_case")
    /\ AssignInPlace(StandardizeCase(df, col))
    /\ Advance(StandardizeCase(df, col))

IterImputeMissing ==
    /\ InLoop("impute_missing")
    /\ LET res == ImputeMissing(df, col, Get(action, "method", "median"))
       IN  /\ IF res.rebinds THEN Rebind(res) ELSE AssignInPlace(res)
           /\ Advance(res)

IterClipOutliers ==
    /\ InLoop("clip_outliers")
    /\ AssignInPlace(ClipOutliers(df, col))
    /\ Advance(ClipOutliers(df, col))

IterDropColumn ==
    /\ InLoop("drop_column")
    /\ Rebind(DropColumnAction(df, col))
    /\ Advance(DropColumnAction(df, col))

IterConvertNumeric ==
    /\ InLoop("convert_numeric")
    /\ AssignInPlace(ConvertNumeric(df, col))
    /\ Advance(ConvertNumeric(df, col))

\* No branch of the chain matches: the loop moves on to the next action
IterSkip ==
    /\ InLoop("none")
    /\ i' = i + 1
    /\ UNCHANGED <<raw_df, profile, suggestions, plan, heap, dfref, actions, log, pc, callno, session, dashboard>>

\* line 72: return df, log
Return ==
    /\ pc = "loop"
    /\ i > Len(actions)
    /\ pc' = "done"
    /\ UNCHANGED <<raw_df, profile, suggestions, plan, heap, dfref, actions, i, log, callno, session, dashboard>>

\* The caller passes the returned table back in with the identical action list
CallAgain ==
    /\ pc = "done"
    /\ callno < MaxCalls
    /\ heap' = [caller |-> heap[dfref], local |-> NoDf]
    /\ dfref' = "caller"
    /\ pc' = "call"
    /\ UNCHANGED <<raw_df, profile, suggestions, plan, actions, i, log, callno, session, dashboard>>

NoProfile == [none |-> TRUE]

InitWith(table, acts) ==
    /\ raw_df = table
    /\ profile = NoProfile
    /\ suggestions = NoSuggestions
    /\ plan = <<>>
    /\ heap = [caller |-> table, local |-> NoDf]
    /\ dfref = "caller"
    /\ actions = acts
    /\ i = 0
    /\ log = <<>>
    /\ pc = "call"
    /\ callno = 0
    /\ NoSession /\ NoDashboard

Init == \E table \in Tables, acts \in SeqsUpTo(ActionPool, MaxActions) : InitWith(table, acts)

Next ==
    \/ Call
    \/ IterRemoveDuplicates
    \/ IterStripWhitespace
    \/ IterStandardizeCase
    \/ IterImputeMissing
    \/ IterClipOutliers
    \/ IterDropColumn
    \/ IterConvertNumeric
    \/ IterSkip
    \/ Return
    \/ CallAgain

Spec == Init /\ [][Next]_vars

\* An object column holds only text and NaN; a numeric column only numbers and NaN
TypeOK ==
    /\ pc \in {"profile", "plan", "planned", "call", "loop", "done"}
    /\ dfref \in {"caller", "local"}
    /\ \A h \in {"caller", "local"} : \A c \in SeqToSet(heap[h].cols) :
          \A r \in 1..Len(heap[h].rows) :
             LET cell == heap[h].rows[r][c]
             IN  IF heap[h].dtype[c] = "object" THEN ~IsNum(cell) ELSE ~IsStr(cell)

(***************************************************************************)
(* Properties of the executor, checked under Spec.                         *)
(***************************************************************************)
\* Same rows, same columns, same cell values
SameTable(a, b) == a.cols = b.cols /\ a.rows = b.rows

KnownActionTypes ==
    {"remove_duplicates", "strip_whitespace", "standardize_case", "impute_missing",
     "clip_outliers", "drop_column", "convert_numeric"}

\* C1: running apply_cleaning_actions a second time, with the identical action
\* list, on the table it returned gives a table equal to that returned table.
C1_Idempotent ==
    (pc = "done" /\ callno >= 2) => SameTable(heap[dfref], heap["caller"])

\* C3: strip_whitespace on a text column none of whose values has leading or
\* trailing whitespace leaves every cell of the column as it was.
C3_StripNoOpStable ==
    [][(/\ InLoop("strip_whitespace")
        /\ df.dtype[col] = "object"
        /\ \A r \in 1..Len(df.rows) :
              IsStr(df.rows[r][col]) => StrStrip(df.rows[r][col].s) = df.rows[r][col].s)
       => Column(heap'[dfref'], col) = Column(df, col)]_vars

\* C4: from the call to the return the caller's table keeps its rows, columns
\* and cell values, whatever the actions do to the working table.
C4_CallerTableUntouched ==
    [][pc # "done" => heap'["caller"] = heap["caller"]]_vars

\* A call has returned a table that differs from the caller's, which still is
\* the table that was passed in
C4_Witness ==
    /\ pc = "done" /\ callno = 1
    /\ Len(log) = 2
    /\ heap["caller"] = raw_df
    /\ heap[dfref].rows # raw_df.rows

\* The action at hand is of no known type, or names a column the working
\* table does not have
Stale ==
    \/ action.action \notin KnownActionTypes
    \/ action.action # "remove_duplicates" /\ ~HasColumn(df, col)

\* C5: such an action raises nothing and changes neither the working table nor
\* the log; the loop goes on with the next action.
C5_StaleActionSkipped ==
    [][(pc = "loop" /\ i <= Len(actions) /\ Stale)
       => /\ heap'[dfref'] = df
          /\ log' = log
          /\ i' = i + 1
          /\ pc' = "loop"]_vars

\* drop_column ran, the action after it named the dropped column, and the
\* call returned with the one log entry of the drop
C5_Witness ==
    /\ pc = "done" /\ callno = 1
    /\ Len(actions) = 2
    /\ actions[1].action = "drop_column"
    /\ actions[2].action = "strip_whitespace"
    /\ actions[2].column = actions[1].column
    /\ Len(log) = 1
    /\ ~HasColumn(heap[dfref], actions[2].column)

\* C6: with an empty action list the returned table equals the input and the
\* log holds an entry saying that no cleaning was needed.
C6_EmptyListLogsNoCleaning ==
    (pc = "done" /\ actions = <<>>)
    => /\ SameTable(heap[dfref], heap["caller"])
       /\ \E k \in 1..Len(log) :
             log[k].text = "No cleaning needed - dataset was already clean."

\* The rows of a sequence that no earlier row equals, in their order
RECURSIVE FirstOccurrences(_, _)
FirstOccurrences(rows, seen) ==
    IF rows = <<>> THEN <<>>
    ELSE IF Head(rows) \in seen THEN FirstOccurrences(Tail(rows), seen)
    ELSE <<Head(rows)>> \o FirstOccurrences(Tail(rows), seen \cup {Head(rows)})

\* The rows that equal, column by column, a row before them
RepeatsOfEarlierRow(t) ==
    {r \in 1..Len(t.rows) :
        \E q \in 1..(r - 1) : \A k \in 1..Len(t.cols) :
            t.rows[q][t.cols[k]] = t.rows[r][t.cols[k]]}

\* C7: duplicate_rows of the profile is the number of rows equal to an earlier
\* row; remove_duplicates on that table keeps the first occurrence of each row,
\* removes exactly that many rows and logs "Removed N duplicate rows" with it.
C7_DuplicatesCountedAndRemoved ==
    [][InLoop("remove_duplicates")
       => LET N == ProfileDataset(df).summary.duplicate_rows
          IN  /\ N = Cardinality(RepeatsOfEarlierRow(df))
              /\ heap'[dfref'].rows = FirstOccurrences(df.rows, {})
              /\ Len(heap'[dfref'].rows) = Len(df.rows) - N
              /\ heap'[dfref'].cols = df.cols
              /\ log' = Append(log, [text |-> "Removed {removed} duplicate rows",
                                     removed |-> N])]_vars

\* remove_duplicates has run on a table with a repeated row
C7_Witness ==
    /\ pc = "done" /\ callno = 1
    /\ Len(actions) = 1
    /\ log = <<[text |-> "Removed {removed} duplicate rows", removed |-> 1]>>
    /\ ProfileDataset(raw_df).summary.duplicate_rows = 1
    /\ Len(heap[dfref].rows) = 1

(***************************************************************************)
(* The Clean step of the wizard up to the call of the executor             *)
(* (src/app.py, STEP 3): profile, plan, the user's selection.              *)
(***************************************************************************)
\* profile = profile_dataset(df)
ProfileStep ==
    /\ pc = "profile"
    /\ profile' = ProfileDataset(raw_df)
    /\ pc' = "plan"
    /\ UNCHANGED <<raw_df, suggestions, plan, heap, dfref, actions, i, log, callno, session, dashboard>>

\* Step 2 of the wizard: profile = profile_dataset(df) and
\* suggestions = suggest_column_mapping(df) on the loaded table
ProfileMapStep ==
    /\ pc = "profile"
    /\ profile' = ProfileDataset(raw_df)
    /\ suggestions' = SuggestColumnMapping(raw_df)
    /\ pc' = "plan"
    /\ UNCHANGED <<raw_df, plan, heap, dfref, actions, i, log, callno, session, dashboard>>

\* plan = generate_cleaning_plan(profile)
PlanStep ==
    /\ pc = "plan"
    /\ plan' = GenerateCleaningPlan(profile)
    /\ pc' = "planned"
    /\ UNCHANGED <<raw_df, profile, suggestions, heap, dfref, actions, i, log, callno, session, dashboard>>

\* The actions of the plan whose checkbox is ticked, in plan order
Selected(ticked) == 
    LET F[k \in 0..Len(plan)] ==
            IF k = 0 THEN <<>>
            ELSE IF k \in ticked THEN Append(F[k - 1], plan[k]) ELSE F[k - 1]
    IN  F[Len(plan)]

\* The user ticks actions of a non-empty plan and presses Apply
SelectStep ==
    /\ pc = "planned"
    /\ plan # <<>>
    /\ \E ticked \in SUBSET (1..Len(plan)) : actions' = Selected(ticked)
    /\ pc' = "call"
    /\ UNCHANGED <<raw_df, profile, suggestions, plan, heap, dfref, i, log, callno, session, dashboard>>

(***************************************************************************)
(* SpecClip: clip_outliers applied twice to one numeric column.            *)
(***************************************************************************)
MaxClipRows == 4    \* rows of the numeric column (4 is the least that clips twice)

ClipPool == {NaN, Num(RInt(0)), Num(RInt(1)), Num(RInt(100))}

ClipTables ==
    {Frame(<<"num">>, rows) : rows \in SeqsUpTo({[num |-> v] : v \in ClipPool}, MaxClipRows)}

ClipTwice == <<[action |-> "clip_outliers", column |-> "num"],
               [action |-> "clip_outliers", column |-> "num"]>>

InitClip == \E table \in ClipTables : InitWith(table, ClipTwice)

NextClip == Call \/ IterClipOutliers \/ Return

SpecClip == InitClip /\ [][NextClip]_vars

\* C2: clip_outliers applied twice in sequence to a numeric column (bounds
\* recomputed each time) gives the column that applying it once gives.
C2_ClipTwiceIsClipOnce ==
    (pc = "done" /\ callno = 1)
    => Column(heap[dfref], "num") = Column(ClipOutliers(heap["caller"], "num").df, "num")

(***************************************************************************)
(* SpecPlan: generate_cleaning_plan on the profiles _profile_column can    *)
(* produce (issue lists in the profiler's order, by semantic type).        *)
(***************************************************************************)
MaxPlanCols == 2    \* columns of a profile
DupPool == {0, 2}   \* duplicate_rows of a profile: none, some

PlanColNames == <<"c1", "c2", "c3", "c4">>

\* The issue types a column of a semantic type can carry, in the profiler's order
IssueTypesOf(type) ==
    IF type = "numeric"
    THEN <<"missing_values", "outliers", "negative_values", "constant">>
    ELSE IF type = "categorical"
    THEN <<"missing_values", "high_cardinality", "whitespace", "case_inconsistency", "constant">>
    ELSE <<"missing_values", "constant">>

\* A column of one distinct value has no outlier, case variant or high cardinality
Feasible(types) ==
    "constant" \in types
        => types \cap {"outliers", "high_cardinality", "case_inconsistency"} = {}

IssueOfType(type) ==
    [type |-> type,
     severity |-> IF type \in {"whitespace", "negative_values", "missing_values"}
                  THEN "low" ELSE "medium",
     description |-> [text |-> type]]

ColumnInfos ==
    {[inferred_type |-> t,
      null_count |-> IF "missing_values" \in S THEN 1 ELSE 0,
      issues |-> [k \in 1..Len(SelectSeq(IssueTypesOf(t), LAMBDA x : x \in S)) |->
                     IssueOfType(SelectSeq(IssueTypesOf(t), LAMBDA x : x \in S)[k])]] :
        <<t, S>> \in {ts \in {"numeric", "categorical", "datetime", "boolean"}
                              \X SUBSET {"missing_values", "outliers", "negative_values",
                                         "high_cardinality", "whitespace",
                                         "case_inconsistency", "constant"} :
                         /\ ts[2] \subseteq SeqToSet(IssueTypesOf(ts[1]))
                         /\ Feasible(ts[2])}}

\* The profiles of n columns and d duplicate rows
Profiles(n, d) ==
    {[shape |-> [rows |-> d + 2, columns |-> n],
      summary |-> [duplicate_rows |-> d],
      cols |-> SubSeq(PlanColNames, 1, n),
      columns |-> [c \in SeqToSet(SubSeq(PlanColNames, 1, n)) |-> infos[c]],
      issues |-> FlattenIssues(SubSeq(PlanColNames, 1, n), infos, 1)] :
        infos \in [SeqToSet(SubSeq(PlanColNames, 1, n)) -> ColumnInfos]}

InitPlan ==
    /\ raw_df = NoDf
    /\ \E n \in 0..MaxPlanCols, d \in DupPool : profile \in Profiles(n, d)
    /\ suggestions = NoSuggestions
    /\ plan = <<>>
    /\ heap = [caller |-> NoDf, local |-> NoDf]
    /\ dfref = "caller"
    /\ actions = <<>>
    /\ i = 0
    /\ log = <<>>
    /\ pc = "plan"
    /\ callno = 0
    /\ NoSession /\ NoDashboard

NextPlan == PlanStep

SpecPlan == InitPlan /\ [][NextPlan]_vars

IsRemoveDuplicates(a) == a.action = "remove_duplicates"

\* C8: the plan holds a remove_duplicates action iff duplicate_rows > 0; it
\* then holds exactly one, as its first action, with auto true.
C8_RemoveDuplicatesFirstIffDuplicates ==
    pc = "planned"
    => LET n == Len(SelectSeq(plan, IsRemoveDuplicates))
       IN  /\ (n > 0) <=> (profile.summary.duplicate_rows > 0)
           /\ n <= 1
           /\ n = 1 => (plan[1].action = "remove_duplicates" /\ plan[1].auto = TRUE)

\* A plan with the duplicates action ahead of column-level actions
C8_Witness ==
    /\ pc = "planned"
    /\ profile.summary.duplicate_rows > 0
    /\ Len(plan) >= 3
    /\ plan[1].action = "remove_duplicates"
    /\ plan[2].action # "remove_duplicates"

\* The action the claim gives for an issue of a column of inferred type t
ClaimedAction(column, t, type) ==
    IF type = "whitespace"
    THEN [action |-> "strip_whitespace", column |-> column, method |-> None, auto |-> TRUE]
    ELSE IF type = "case_inconsistency"
    THEN [action |-> "standardize_case", column |-> column, method |-> None, auto |-> TRUE]
    ELSE IF type = "missing_values"
    THEN [action |-> "impute_missing", column |-> column,
          method |-> IF t = "numeric" THEN "median" ELSE "mode", auto |-> TRUE]
    ELSE IF type = "outliers"
    THEN [action |-> "clip_outliers", column |-> column, method |-> None, auto |-> FALSE]
    ELSE [action |-> "drop_column", column |-> column, method |-> None, auto |-> FALSE]

Actionable(e) ==
    e.issue.type \in {"whitespace", "case_inconsistency", "missing_values", "outliers", "constant"}

\* C9: after the optional remove_duplicates action the plan is the image of the
\* profile's issues, in column order and issue order, under the claim's table;
\* negative_values and high_cardinality give nothing.
C9_PlanIsImageOfIssues ==
    pc = "planned"
    => LET rest == SelectSeq(plan, LAMBDA a : ~IsRemoveDuplicates(a))
           want == SelectSeq(profile.issues, Actionable)
       IN  /\ Len(rest) = Len(want)
           /\ \A k \in 1..Len(want) :
                 [action |-> rest[k].action, column |-> rest[k].column,
                  method |-> Get(rest[k], "method", None), auto |-> rest[k].auto]
                 = ClaimedAction(want[k].column,
                                 profile.columns[want[k].column].inferred_type,
                                 want[k].issue.type)
           /\ (profile.summary.duplicate_rows = 0 /\ want = <<>>) => plan = <<>>

\* A plan over two columns, one imputed with the median and one with the mode,
\* from a profile that also carries an informational issue
C9_Witness ==
    /\ pc = "planned"
    /\ Len(profile.cols) = 2
    /\ \E a, b \in 1..Len(plan) :
          /\ a < b
          /\ plan[a].action = "impute_missing" /\ plan[a].method = "mode"
          /\ plan[b].action = "impute_missing" /\ plan[b].method = "median"
    /\ \E k \in 1..Len(profile.issues) : profile.issues[k].issue.type = "negative_values"
    /\ \E k \in 1..Len(plan) : plan[k].action = "clip_outliers"

(***************************************************************************)
(* SpecText: the Clean step on a table of one text column: profile, plan,  *)
(* the user's selection from the plan, the executor.                       *)
(***************************************************************************)
MaxTextRows == 3    \* rows of the text column

TextPool ==
    {NaN, Str(<<" ", "A", " ">>), Str(<<"b">>), Str(<<"B">>), Str(<<"y">>), Str(<<"Y">>)}

TextTables ==
    {Frame(<<"cat">>, rows) : rows \in SeqsUpTo({[cat |-> v] : v \in TextPool}, MaxTextRows)}

InitText ==
    /\ raw_df \in TextTables
    /\ profile = NoProfile
    /\ suggestions = NoSuggestions
    /\ plan = <<>>
    /\ heap = [caller |-> raw_df, local |-> NoDf]
    /\ dfref = "caller"
    /\ actions = <<>>
    /\ i = 0
    /\ log = <<>>
    /\ pc = "profile"
    /\ callno = 0
    /\ NoSession /\ NoDashboard

NextText ==
    \/ ProfileStep
    \/ PlanStep
    \/ SelectStep
    \/ Call
    \/ IterRemoveDuplicates
    \/ IterStripWhitespace
    \/ IterStandardizeCase
    \/ IterImputeMissing
    \/ IterDropColumn
    \/ Return

SpecText == InitText /\ [][NextText]_vars

\* The text values of the raw column, and a value up to whitespace and case
RawCat == Column(raw_df, "cat")
Folded(s) == StrLower(StrStrip(s))
HasIssue(type) ==
    \E k \in 1..Len(profile.columns["cat"].issues) : profile.columns["cat"].issues[k].type = type
PadsWhitespace == \E r \in 1..Len(RawCat) : IsStr(RawCat[r]) /\ StrStrip(RawCat[r].s) # RawCat[r].s
VariesByCase ==
    \E r, q \in 1..Len(RawCat) :
        /\ IsStr(RawCat[r]) /\ IsStr(RawCat[q])
        /\ StrStrip(RawCat[r].s) # StrStrip(RawCat[q].s)
        /\ Folded(RawCat[r].s) = Folded(RawCat[q].s)
Picked(type) == \E k \in 1..Len(actions) : actions[k].action = type /\ actions[k].column = "cat"

\* What the claim says of a profiled, planned and cleaned text column, for the
\* columns that satisfy scope
TextColumnNormalised(scope) ==
    /\ (pc \notin {"profile"} /\ scope /\ PadsWhitespace)
       => \E k \in 1..Len(profile.columns["cat"].issues) :
             /\ profile.columns["cat"].issues[k].type = "whitespace"
             /\ profile.columns["cat"].issues[k].description.whitespace_issues
                = Cardinality({r \in 1..Len(RawCat) :
                     IsStr(RawCat[r]) /\ StrStrip(RawCat[r].s) # RawCat[r].s})
    /\ (pc \notin {"profile"} /\ scope /\ VariesByCase) => HasIssue("case_inconsistency")
    /\ (pc \notin {"profile", "plan"} /\ scope /\ PadsWhitespace /\ VariesByCase)
       => \E a, b \in 1..Len(plan) :
             /\ a < b
             /\ plan[a].action = "strip_whitespace" /\ plan[a].column = "cat"
             /\ plan[b].action = "standardize_case" /\ plan[b].column = "cat"
    /\ (/\ pc = "done" /\ scope
        /\ Picked("strip_whitespace") /\ Picked("standardize_case")
        /\ \A k \in 1..Len(actions) : actions[k].action \notin {"remove_duplicates", "drop_column"})
       => /\ Len(heap[dfref].rows) = Len(RawCat)
          /\ \A r, q \in 1..Len(RawCat) :
                (/\ IsStr(RawCat[r]) /\ IsStr(RawCat[q])
                 /\ Folded(RawCat[r].s) = Folded(RawCat[q].s))
                => heap[dfref].rows[r]["cat"] = heap[dfref].rows[q]["cat"]

\* C10 as claimed: for every text column whose values differ by surrounding
\* whitespace or by case, profiling flags whitespace (with the exact count)
\* and case_inconsistency, the plan puts strip_whitespace before
\* standardize_case, and after both have run values equal up to whitespace
\* and case are equal.
C10_Claimed == TextColumnNormalised(TRUE)

\* C10, amended: the same for a text column whose inferred type is categorical
\* (a column inferred boolean, numeric or datetime gets no text checks).
C10_CategoricalTextNormalised ==
    TextColumnNormalised(InferSemanticType(RawCat, raw_df.dtype["cat"]) = "categorical")

\* The column " A ", "b", "B" cleaned with both actions: "A", "B", "B"
C10_Witness ==
    /\ pc = "done"
    /\ RawCat = <<Str(<<" ", "A", " ">>), Str(<<"b">>), Str(<<"B">>)>>
    /\ HasIssue("whitespace") /\ HasIssue("case_inconsistency")
    /\ Len(actions) = 2
    /\ actions[1].action = "strip_whitespace" /\ actions[2].action = "standardize_case"
    /\ Column(heap[dfref], "cat") = <<Str(<<"A">>), Str(<<"B">>), Str(<<"B">>)>>

(***************************************************************************)
(* SpecProfile: step 2 of the wizard on a table of one column, x, read     *)
(* from a CSV file.                                                        *)
(***************************************************************************)
MaxProfileRows == 5 \* rows of a column written cell by cell
MaxOnes == 10       \* cells "1" of a column given by its counts
MaxTwos == 9        \* cells "2" of a column given by its counts

\* The text of a CSV cell: empty, a whole number, a date, or other text
DateToken == <<"2", "0", "2", "0", "-", "1", "-", "2">>
TokenPool == {<<>>, <<"0">>, <<"1">>, <<"1", "0", "0">>, <<"x">>, DateToken}

IsNumberToken(tok) == tok # <<>> /\ \A k \in 1..Len(tok) : IsDigit(tok[k])

\* read_csv on the cells of one column: numbers if every non-empty cell is a
\* number, text otherwise; an empty cell is NaN
ReadCsvColumn(tokens) ==
    IF \A k \in 1..Len(tokens) : tokens[k] = <<>> \/ IsNumberToken(tokens[k])
    THEN [k \in 1..Len(tokens) |->
             IF tokens[k] = <<>> THEN NaN ELSE Num(RInt(DigitsValue(tokens[k])))]
    ELSE [k \in 1..Len(tokens) |-> IF tokens[k] = <<>> THEN NaN ELSE Str(tokens[k])]

\* The name of the column, a str
X == <<"x">>

OneColumnFrame(tokens) ==
    Frame(<<X>>, [k \in 1..Len(tokens) |-> [c \in {X} |-> ReadCsvColumn(tokens)[k]]])

Repeat(tok, n) == [k \in 1..n |-> tok]

\* A column given by how many cells of each text it has
CountedColumn(nulls, ones, twos, hundreds, texts) ==
    Repeat(<<>>, nulls) \o Repeat(<<"1">>, ones) \o Repeat(<<"2">>, twos)
        \o Repeat(<<"1", "0", "0">>, hundreds) \o Repeat(<<"x">>, texts)

InitProfile ==
    /\ \/ \E tokens \in SeqsUpTo(TokenPool, MaxProfileRows) : raw_df = OneColumnFrame(tokens)
       \/ \E ones \in 0..MaxOnes, twos \in 0..MaxTwos, nulls, hundreds, texts \in 0..1 :
             raw_df = OneColumnFrame(CountedColumn(nulls, ones, twos, hundreds, texts))
    /\ profile = NoProfile
    /\ suggestions = NoSuggestions
    /\ plan = <<>>
    /\ heap = [caller |-> raw_df, local |-> NoDf]
    /\ dfref = "caller"
    /\ actions = <<>>
    /\ i = 0
    /\ log = <<>>
    /\ pc = "profile"
    /\ callno = 0
    /\ NoSession /\ NoDashboard

NextProfile == ProfileMapStep

SpecProfile == InitProfile /\ [][NextProfile]_vars

\* The column x of the loaded table, its storage type and its profile
ColX == Column(raw_df, X)
DtypeX == raw_df.dtype[X]
InfoX == profile.columns[X]
Profiled == pc # "profile"

\* C11: a column of native numeric storage type is inferred numeric whatever it
\* holds, also when every value is null.
C11_NumericStorageIsNumeric ==
    (Profiled /\ IsNumericDtype(DtypeX)) => InfoX.inferred_type = "numeric"

\* A float64 column of nulls only, inferred numeric
C11_Witness ==
    /\ Profiled
    /\ DtypeX = "float64"
    /\ Len(ColX) >= 2
    /\ \A k \in 1..Len(ColX) : IsNull(ColX[k])
    /\ InfoX.inferred_type = "numeric"

\* How many non-null values of the text column x parse as a number
ParsedX == Len(DropNa(ToNumericSeries(DropNa(ColX))))

\* How many non-null values of the text column x match the date pattern
DatesX == Cardinality({k \in 1..Len(DropNa(ColX)) : MatchesDate(DropNa(ColX)[k].s)})

\* C12: for a column of non-numeric storage type, at least 80% of the non-null
\* values (exactly 80% included) coercing to a number gives numeric, and
\* otherwise at least 80% of them matching the date pattern gives datetime.
C12_RatioInclusiveAt80 ==
    (/\ Profiled
     /\ ~IsNumericDtype(DtypeX)
     /\ Len(DropNa(ColX)) > 0)
    => /\ 10 * ParsedX >= 8 * Len(DropNa(ColX)) => InfoX.inferred_type = "numeric"
       /\ (/\ 10 * ParsedX < 8 * Len(DropNa(ColX))
           /\ 10 * DatesX >= 8 * Len(DropNa(ColX))) => InfoX.inferred_type = "datetime"

\* C13: a column of non-numeric storage type in which every value is null is
\* inferred categorical.
C13_AllNullTextIsCategorical ==
    (/\ Profiled
     /\ ~IsNumericDtype(DtypeX)
     /\ \A k \in 1..Len(ColX) : IsNull(ColX[k]))
    => InfoX.inferred_type = "categorical"

\* C14: the column profile has null_count + non_null equal to the number of
\* rows of the table.
C14_NullsPlusNonNullIsRows ==
    Profiled => InfoX.null_count + InfoX.non_null = Len(raw_df.rows)

\* A column of two nulls and three values
C14_Witness ==
    /\ Profiled
    /\ Len(raw_df.rows) = 5
    /\ IsNull(ColX[1])
    /\ InfoX.null_count = 2
    /\ InfoX.non_null = 3

\* The missing_values issues of the column profile
MissingIssuesX ==
    {k \in 1..Len(InfoX.issues) : InfoX.issues[k].type = "missing_values"}

\* C15: the profile has a missing_values issue iff null_pct > 0, with severity
\* high above 20, medium above 5 up to 20, low up to 5.
C15_MissingSeverityThresholds ==
    Profiled =>
        /\ (MissingIssuesX # {}) <=> NumGt(InfoX.null_pct, 0)
        /\ \A k \in MissingIssuesX :
              InfoX.issues[k].severity =
                  IF RLess(RInt(20), InfoX.null_pct.v) THEN "high"
                  ELSE IF RLess(RInt(5), InfoX.null_pct.v) THEN "medium"
                  ELSE "low"

\* One null in twenty rows: null_pct is exactly 5 and the severity is low
C15_Witness ==
    /\ Profiled
    /\ Len(raw_df.rows) = 20
    /\ InfoX.null_pct = Num(RInt(5))
    /\ \E k \in MissingIssuesX : InfoX.issues[k].severity = "low"

\* The parsed values of x, the outliers issues of its profile, the IQR fences
NumericX == DropNa(ToNumericSeries(ColX))
OutlierIssuesX == {k \in 1..Len(InfoX.issues) : InfoX.issues[k].type = "outliers"}
IqrX == RSub(Quantile(NumericX, 3).v, Quantile(NumericX, 1).v)
OutsideFencesX ==
    Cardinality({k \in 1..Len(NumericX) :
        \/ RLess(NumericX[k].v,
                 RSub(Quantile(NumericX, 1).v, RDivInt(RMul(RInt(3), IqrX), 2)))
        \/ RLess(RAdd(Quantile(NumericX, 3).v, RDivInt(RMul(RInt(3), IqrX), 2)),
                 NumericX[k].v)})

\* C16: a numeric column whose values are all 0 or 1, or whose IQR is 0, has no
\* outliers issue and no outlier count in its profile.
C16_NoOutliersForBinaryOrZeroIqr ==
    (/\ Profiled
     /\ InfoX.inferred_type = "numeric"
     /\ NumericX # <<>>
     /\ \/ SeqToSet(NumericX) \subseteq {Num(RInt(0)), Num(RInt(1))}
        \/ IqrX = RInt(0))
    => /\ OutlierIssuesX = {}
       /\ "outlier_count" \notin DOMAIN InfoX.stats

\* The skewed binary column 0, 0, 0, 1: the 1 lies above the upper fence
C16_Witness ==
    /\ Profiled
    /\ NumericX = <<Num(RInt(0)), Num(RInt(0)), Num(RInt(0)), Num(RInt(1))>>
    /\ OutsideFencesX = 1
    /\ OutlierIssuesX = {}

\* C17: an outliers issue carries the number of values outside the fences, and
\* its severity is high if that number is at least 5% of the column's non_null
\* count and medium otherwise.
C17_OutlierSeverityByNonNull ==
    Profiled =>
        \A k \in OutlierIssuesX :
            /\ InfoX.issues[k].description.outliers = OutsideFencesX
            /\ InfoX.stats.outlier_count = OutsideFencesX
            /\ InfoX.issues[k].severity =
                  IF 100 * OutsideFencesX >= 5 * InfoX.non_null THEN "high" ELSE "medium"

(***************************************************************************)
(* SpecMap: step 2 of the wizard on a table of named columns.              *)
(***************************************************************************)
MaxMapCols == 2     \* columns of the table

\* Column names: an id name, a name with an id and a target keyword, a target
\* name, a name with a target and a date keyword, a date name, a plain name
NamePool ==
    { <<"s", "t", "u", "d", "e", "n", "t", "_", "i", "d">>,
      <<"p", "a", "s", "s", "_", "K", "E", "Y">>,
      <<"p", "a", "s", "s", "e", "d">>,
      <<"p", "a", "s", "s", "-", "d", "a", "t", "e">>,
      <<"y", "e", "a", "r">>, <<"a", "g", "e">> }

\* The cells of a column of two rows: numbers, text, yes/no words, dates
ContentPool ==
    { <<<<"1">>, <<"1", "0", "0">>>>, <<<<"x">>, <<"x">>>>, <<<<"y">>, <<"1">>>>,
      <<DateToken, DateToken>> }

\* The sequences of n distinct names
DistinctNames(n) == {names \in [1..n -> NamePool] : \A a, b \in 1..n : names[a] = names[b] => a = b}

\* The frame read from the columns names with the cells content[k] in column k
NamedFrame(names, content) ==
    Frame(names, [r \in 1..2 |->
                     [c \in SeqToSet(names) |->
                         ReadCsvColumn(content[CHOOSE k \in 1..Len(names) : names[k] = c])[r]]])

InitMap ==
    /\ \E n \in 0..MaxMapCols : \E names \in DistinctNames(n), content \in [1..n -> ContentPool] :
          raw_df = NamedFrame(names, content)
    /\ profile = NoProfile
    /\ suggestions = NoSuggestions
    /\ plan = <<>>
    /\ heap = [caller |-> raw_df, local |-> NoDf]
    /\ dfref = "caller"
    /\ actions = <<>>
    /\ i = 0
    /\ log = <<>>
    /\ pc = "profile"
    /\ callno = 0
    /\ NoSession /\ NoDashboard

NextMap == ProfileMapStep

SpecMap == InitMap /\ [][NextMap]_vars

\* The positions of the columns whose normalised name contains a keyword
NameHits(keywords) ==
    {k \in 1..Len(raw_df.cols) : AnyKeyword(keywords, NormaliseName(raw_df.cols[k]))}
First(S) == CHOOSE k \in S : \A j \in S : k <= j
InList(c, list) == \E k \in 1..Len(list) : list[k] = c
StudentId == <<"s", "t", "u", "d", "e", "n", "t", "_", "i", "d">>
Passed == <<"p", "a", "s", "s", "e", "d">>

\* C18: id_column is the first column whose normalised name contains an id
\* keyword, target_column the first column other than it whose name contains a
\* target keyword, and the id column holds no other role and is in no list.
C18_IdFirstThenTarget ==
    Profiled =>
        /\ suggestions.id_column =
              IF NameHits(IdKeywords) = {} THEN NoColumn
              ELSE raw_df.cols[First(NameHits(IdKeywords))]
        /\ LET hits == {k \in NameHits(TargetKeywords) :
                           raw_df.cols[k] # suggestions.id_column}
           IN  suggestions.target_column =
                  IF hits = {} THEN NoColumn ELSE raw_df.cols[First(hits)]
        /\ suggestions.id_column # NoColumn =>
              /\ suggestions.target_column # suggestions.id_column
              /\ suggestions.date_column # suggestions.id_column
              /\ ~InList(suggestions.id_column, suggestions.numeric_columns)
              /\ ~InList(suggestions.id_column, suggestions.categorical_columns)

\* The columns student_id and passed: id_column student_id, target_column passed
C18_Witness ==
    /\ Profiled
    /\ raw_df.cols = <<StudentId, Passed>>
    /\ suggestions.id_column = StudentId
    /\ suggestions.target_column = Passed

\* C19: every column of the table is in exactly one of numeric_columns and
\* categorical_columns, the one its semantic type gives, whatever role it holds.
C19_EveryColumnInOneList ==
    Profiled =>
        \A k \in 1..Len(raw_df.cols) :
            LET c == raw_df.cols[k]
                t == profile.columns[c].inferred_type
            IN  /\ InList(c, suggestions.numeric_columns)
                      # InList(c, suggestions.categorical_columns)
                /\ t = "numeric" => InList(c, suggestions.numeric_columns)
                /\ t \in {"categorical", "boolean"}
                      => InList(c, suggestions.categorical_columns)

\* C20: no column holds more than one of the roles id_column, target_column
\* and date_column.
C20_AtMostOneRole ==
    Profiled =>
        \A k \in 1..Len(raw_df.cols) :
            Cardinality({role \in {"id_column", "target_column", "date_column"} :
                            suggestions[role] = raw_df.cols[k]}) <= 1

(***************************************************************************)
(* Further properties of the profiler and the executor, checked under      *)
(* SpecProfile, SpecText and Spec.                                         *)
(***************************************************************************)
\* C23: for a table with zero rows or zero columns profile_dataset reports
\* every percentage as 0: missing_pct and duplicate_pct of the summary,
\* null_pct and unique_pct of each column.
C23_EmptyTablePercentagesZero ==
    (Profiled /\ (Len(raw_df.rows) = 0 \/ Len(raw_df.cols) = 0))
    => /\ profile.summary.missing_pct = Num(RInt(0))
       /\ profile.summary.duplicate_pct = Num(RInt(0))
       /\ \A k \in 1..Len(raw_df.cols) :
             /\ profile.columns[raw_df.cols[k]].null_pct = Num(RInt(0))
             /\ profile.columns[raw_df.cols[k]].unique_pct = Num(RInt(0))

\* No row of a table equals an earlier row of it
NoTwoIdenticalRows(t) ==
    \A r, q \in 1..Len(t.rows) : r # q => t.rows[r] # t.rows[q]

\* C25: after every action of the generated plan has been applied, in plan
\* order, to the table the plan was generated for, the cleaned table has no
\* two identical rows.
C25_PlanLeavesNoDuplicates ==
    (pc = "done" /\ callno = 1 /\ actions = plan /\ heap["caller"] = raw_df)
    => NoTwoIdenticalRows(heap[dfref])

\* C26: strip_whitespace and standardize_case keep every null cell of the
\* column null, so the null count of the column is the same before and after.
C26_TextActionsKeepNulls ==
    [][(InLoop("strip_whitespace") \/ InLoop("standardize_case"))
       => /\ \A r \in 1..Len(df.rows) :
                IsNull(df.rows[r][col]) => IsNull(heap'[dfref'].rows[r][col])
          /\ NullCount(Column(heap'[dfref'], col)) = NullCount(Column(df, col))]_vars

(***************************************************************************)
(* SpecImpute: impute_missing on the column num of a table read from a CSV *)
(* file, alone or after remove_duplicates or clip_outliers.                *)
(***************************************************************************)
MaxImputeRows == 4  \* rows of a column written cell by cell
MaxImputeOnes == 6  \* cells "1" of a column given by its counts

ImputeTokens == {<<>>, <<"1">>, <<"1", "0", "0">>, <<"x">>}

ImputeFrame(tokens) ==
    Frame(<<"num">>, [k \in 1..Len(tokens) |-> [num |-> ReadCsvColumn(tokens)[k]]])

ImputeMethods == {"median", "mean", "mode", "drop", "0", "none"}

ImputeLists ==
    { pre \o <<[action |-> "impute_missing", column |-> "num", method |-> m]>> :
        pre \in { <<>>, <<[action |-> "remove_duplicates"]>>,
                  <<[action |-> "clip_outliers", column |-> "num"]>> },
        m \in ImputeMethods }

InitImpute ==
    \E acts \in ImputeLists :
        \/ \E tokens \in SeqsUpTo(ImputeTokens, MaxImputeRows) :
              InitWith(ImputeFrame(tokens), acts)
        \/ \E ones \in 0..MaxImputeOnes, nulls, hundreds, texts \in 0..1 :
              InitWith(ImputeFrame(CountedColumn(nulls, ones, 0, hundreds, texts)), acts)

NextImpute ==
    \/ Call
    \/ IterRemoveDuplicates
    \/ IterClipOutliers
    \/ IterImputeMissing
    \/ Return

SpecImpute == InitImpute /\ [][NextImpute]_vars

\* The impute_missing action at hand finds a null in its column
Imputing(method) ==
    /\ InLoop("impute_missing")
    /\ Get(action, "method", "median") = method
    /\ NullCount(Column(df, col)) > 0

\* Every cell of the column that was null holds value afterwards, and the log
\* entry names value
FilledWith(value) ==
    /\ \A r \in 1..Len(df.rows) :
          IsNull(df.rows[r][col]) => heap'[dfref'].rows[r][col] = value
    /\ log'[Len(log')].fill_val = value

\* The most frequent values of a series, nulls aside
MostFrequent(series) ==
    {v \in SeqToSet(DropNa(series)) :
        \A e \in SeqToSet(DropNa(series)) : CountOf(series, e) <= CountOf(series, v)}

\* C24: impute_missing fills with the median, mean or mode of the column as it
\* stands when the action runs; mode on a column of nulls only fills with the
\* text Unknown; drop removes the rows null in the column; any other method
\* string is itself the fill value.
C24_ImputeUsesCurrentColumn ==
    [][/\ Imputing("median") => FilledWith(Median(ToNumericSeries(Column(df, col))))
       /\ Imputing("mean") => FilledWith(Mean(ToNumericSeries(Column(df, col))))
       /\ Imputing("mode") =>
             IF MostFrequent(Column(df, col)) = {}
             THEN FilledWith(Str(<<"U", "n", "k", "n", "o", "w", "n">>))
             ELSE \E v \in MostFrequent(Column(df, col)) :
                     /\ \A e \in MostFrequent(Column(df, col)) : ~CellLess(e, v)
                     /\ FilledWith(v)
       /\ Imputing("drop") =>
             /\ heap'[dfref'].rows = SelectSeq(df.rows, LAMBDA row : ~IsNull(row[col]))
             /\ heap'[dfref'].cols = df.cols
       /\ Imputing("0") => FilledWith(Str(<<"0">>))
       /\ Imputing("none") => FilledWith(Str(<<"n", "o", "n", "e">>))]_vars

\* 1, 1, 100 and a null: after remove_duplicates the median is that of 1 and
\* 100, 50.5, where the table as loaded has the median 1
C24_Witness ==
    /\ pc = "done"
    /\ Column(raw_df, "num") = <<Num(RInt(1)), Num(RInt(1)), Num(RInt(100)), NaN>>
    /\ actions[1].action = "remove_duplicates"
    /\ actions[2].method = "median"
    /\ Median(Column(raw_df, "num")) = Num(RInt(1))
    /\ log[2].fill_val = Num(Rat(101, 2))
    /\ Column(heap[dfref], "num") = <<Num(RInt(1)), Num(RInt(100)), Num(Rat(101, 2))>>

\* Two cells hold the same value: the same cell, or a text and the number it
\* parses as
SameValue(a, b) ==
    \/ a = b
    \/ ~IsNull(ToNumericCell(a)) /\ ToNumericCell(a) = ToNumericCell(b)

\* C27: impute_missing with median or mean leaves every cell that held a
\* non-null value (a text that parses as no number included) with the same
\* value, and changes as many cells as its log entry counts.
C27_ImputeChangesOnlyNulls ==
    [][(Imputing("median") \/ Imputing("mean"))
       => /\ \A r \in 1..Len(df.rows) :
                ~IsNull(df.rows[r][col])
                   => SameValue(df.rows[r][col], heap'[dfref'].rows[r][col])
          /\ Cardinality({r \in 1..Len(df.rows) :
                            ~SameValue(df.rows[r][col], heap'[dfref'].rows[r][col])})
                = log'[Len(log')].null_count]_vars

(***************************************************************************)
(* Dashboard: filter options, filters and statistics                       *)
(* (src/src/data_cleaner.py, src/src/utils.py, src/app.py STEP 4).         *)
(*                                                                         *)
(* A dict is [items |-> the sequence of its [key, value] pairs in          *)
(* insertion order].  A key is the f-string f"{col}{suffix}", kept as the  *)
(* pair of its parts: a column name is the key with suffix "", a fixed     *)
(* name is the key with col "".                                            *)
(***************************************************************************)
EmptyDict == [items |-> <<>>]
Key(c, suffix) == [col |-> c, suffix |-> suffix]
HasKey(d, key) == \E k \in 1..Len(d.items) : d.items[k].key = key
Lookup(d, key) == d.items[CHOOSE k \in 1..Len(d.items) : d.items[k].key = key].value
Put(d, key, value) ==
    IF HasKey(d, key)
    THEN [items |-> [k \in 1..Len(d.items) |->
                        IF d.items[k].key = key THEN [key |-> key, value |-> value]
                        ELSE d.items[k]]]
    ELSE [items |-> Append(d.items, [key |-> key, value |-> value])]

\* a <= b on numbers
NumLeq(a, b) == ~RLess(b.v, a.v)

\* lines 79-82: options[col] = sorted(df[col].dropna().unique().tolist())
RECURSIVE CategoricalOptions(_, _, _, _)
CategoricalOptions(options, table, categorical_columns, k) ==
    IF k > Len(categorical_columns) THEN options
    ELSE CategoricalOptions(
             IF HasColumn(table, categorical_columns[k])
             THEN Put(options, Key(categorical_columns[k], ""),
                      [values |-> SortSet(SeqToSet(DropNa(Column(table, categorical_columns[k]))))])
             ELSE options,
             table, categorical_columns, k + 1)

\* The min and max of a non-empty series of numbers
MinMax(numeric_series) ==
    [min |-> SortCells(numeric_series)[1],
     max |-> SortCells(numeric_series)[Len(numeric_series)]]

\* lines 84-91: options[col] = {"min": ..., "max": ...} where a value parses
RECURSIVE NumericOptions(_, _, _, _)
NumericOptions(options, table, numeric_columns, k) ==
    IF k > Len(numeric_columns) THEN options
    ELSE NumericOptions(
             IF /\ HasColumn(table, numeric_columns[k])
                /\ Len(DropNa(ToNumericSeries(Column(table, numeric_columns[k])))) > 0
             THEN Put(options, Key(numeric_columns[k], ""),
                      MinMax(DropNa(ToNumericSeries(Column(table, numeric_columns[k])))))
             ELSE options,
             table, numeric_columns, k + 1)

\* get_dynamic_filter_options
GetDynamicFilterOptions(table, categorical_columns, numeric_columns) ==
    NumericOptions(CategoricalOptions(EmptyDict, table, categorical_columns, 1),
                   table, numeric_columns, 1)

\* The exception filtered[col] raises when the frame has no column col
KeyError(c) == [raised |-> "KeyError", key |-> c]
Raised(result) == "raised" \in DOMAIN result

\* filtered[filtered[col].isin(values)]
IsIn(table, c, values) ==
    [table EXCEPT !.rows = KeepRows(table.rows,
        [r \in 1..Len(table.rows) |-> table.rows[r][c] \in SeqToSet(values)], 1)]

\* (mutant) the range taken exclusive of its ends
InRangeExclusive(table, c, low, high) ==
    [table EXCEPT !.rows = KeepRows(table.rows,
        [r \in 1..Len(table.rows) |->
            /\ ~IsNull(ToNumericCell(table.rows[r][c]))
            /\ RLess(low.v, ToNumericCell(table.rows[r][c]).v)
            /\ RLess(ToNumericCell(table.rows[r][c]).v, high.v)], 1)]

\* filtered[(numeric_col >= low) & (numeric_col <= high)]: a comparison with
\* NaN is False
InRange(table, c, low, high) ==
    [table EXCEPT !.rows = KeepRows(table.rows,
        [r \in 1..Len(table.rows) |->
            /\ ~IsNull(ToNumericCell(table.rows[r][c]))
            /\ NumLeq(low, ToNumericCell(table.rows[r][c]))
            /\ NumLeq(ToNumericCell(table.rows[r][c]), high)], 1)]

\* lines 100-102: the loop over categorical_columns
RECURSIVE CategoricalFilters(_, _, _, _)
CategoricalFilters(filtered, fs, categorical_columns, k) ==
    IF Raised(filtered) \/ k > Len(categorical_columns) THEN filtered
    ELSE CategoricalFilters(
             IF /\ HasKey(fs, Key(categorical_columns[k], ""))
                /\ Lookup(fs, Key(categorical_columns[k], "")).selected # <<>>
             THEN (IF HasColumn(filtered, categorical_columns[k])
                   THEN IsIn(filtered, categorical_columns[k],
                             Lookup(fs, Key(categorical_columns[k], "")).selected)
                   ELSE KeyError(categorical_columns[k]))
             ELSE filtered,
             fs, categorical_columns, k + 1)

\* lines 104-109: the loop over numeric_columns
RECURSIVE NumericFilters(_, _, _, _)
NumericFilters(filtered, fs, numeric_columns, k) ==
    IF Raised(filtered) \/ k > Len(numeric_columns) THEN filtered
    ELSE NumericFilters(
             IF HasKey(fs, Key(numeric_columns[k], "_range"))
             THEN (IF HasColumn(filtered, numeric_columns[k])
                   THEN InRange(filtered, numeric_columns[k],
                                Lookup(fs, Key(numeric_columns[k], "_range")).low,
                                Lookup(fs, Key(numeric_columns[k], "_range")).high)
                   ELSE KeyError(numeric_columns[k]))
             ELSE filtered,
             fs, numeric_columns, k + 1)

\* apply_dynamic_filters: the filtered copy, or the exception raised
ApplyDynamicFilters(table, fs, categorical_columns, numeric_columns) ==
    NumericFilters(CategoricalFilters(table, fs, categorical_columns, 1),
                   fs, numeric_columns, 1)

\* round(x, places) of a float that may be NaN, scale = 10^places
RoundTo(c, scale) == IF IsNull(c) THEN NaN ELSE Num(Rat(RoundScaled(c.v, scale), scale))

\* `name and name in df.columns` for a mapping entry that may be None
Mapped(table, name) == name # None /\ HasColumn(table, name)

\* series.notna().any() of the parsed column
AnyParsed(table, c) == DropNa(ToNumericSeries(Column(table, c))) # <<>>

\* The cells of column target in the rows whose column by holds group
GroupCells(table, by, target, group) ==
    Column([table EXCEPT !.rows =
               KeepRows(table.rows, [r \in 1..Len(table.rows) |-> table.rows[r][by] = group], 1)],
           target)

\* df.groupby(by)[target].apply(lambda s: round(float(to_numeric(s).mean()), places))
\* .to_dict(): one entry per non-null value of by, in ascending order
GroupMeans(table, by, target, groups, scale) ==
    [groups |-> [k \in 1..Len(groups) |->
        [group |-> groups[k],
         mean |-> RoundTo(Mean(ToNumericSeries(GroupCells(table, by, target, groups[k]))),
                          scale)]]]

\* lines 54-55: unique_entities
IdStats(st, table, id_col) ==
    IF Mapped(table, id_col)
    THEN Put(st, Key("", "unique_entities"), Num(RInt(NUnique(Column(table, id_col)))))
    ELSE st

\* lines 66-69: positive_rate of a target holding only 0 and 1
PositiveRate(st, target_series) ==
    IF SeqToSet(DropNa(target_series)) \subseteq {Num(RInt(0)), Num(RInt(1))}
    THEN Put(st, Key("", "positive_rate"),
             RoundTo(Num(RMul(Mean(target_series).v, RInt(100))), 10))
    ELSE st

\* lines 57-69: the statistics of the target column (target_std, a square
\* root, is left out)
TargetStats(st, table, target_col) ==
    IF Mapped(table, target_col) /\ AnyParsed(table, target_col)
    THEN PositiveRate(
             Put(Put(Put(Put(st,
                 Key("", "target_mean"),
                     RoundTo(Mean(ToNumericSeries(Column(table, target_col))), 100)),
                 Key("", "target_median"),
                     RoundTo(Median(ToNumericSeries(Column(table, target_col))), 100)),
                 Key("", "target_min"),
                     RoundTo(MinMax(DropNa(ToNumericSeries(Column(table, target_col)))).min, 100)),
                 Key("", "target_max"),
                     RoundTo(MinMax(DropNa(ToNumericSeries(Column(table, target_col)))).max, 100)),
             ToNumericSeries(Column(table, target_col)))
    ELSE st

\* lines 72-81: the mean of each numeric column (the correlation with the
\* target, a square root, is left out)
RECURSIVE NumericColumnStats(_, _, _, _, _)
NumericColumnStats(st, table, numeric_cols, target_col, k) ==
    IF k > Len(numeric_cols) THEN st
    ELSE NumericColumnStats(
             IF /\ HasColumn(table, numeric_cols[k])
                /\ numeric_cols[k] # target_col
                /\ AnyParsed(table, numeric_cols[k])
             THEN Put(st, Key(numeric_cols[k], "_mean"),
                      RoundTo(Mean(ToNumericSeries(Column(table, numeric_cols[k]))), 100))
             ELSE st,
             table, numeric_cols, target_col, k + 1)

\* lines 84-89: the target mean of each value of each categorical column
RECURSIVE CategoricalBreakdowns(_, _, _, _, _)
CategoricalBreakdowns(st, table, categorical_cols, target_col, k) ==
    IF k > Len(categorical_cols) THEN st
    ELSE CategoricalBreakdowns(
             IF HasColumn(table, categorical_cols[k]) /\ Mapped(table, target_col)
             THEN Put(st, Key(categorical_cols[k], "_breakdown"),
                      GroupMeans(table, categorical_cols[k], target_col,
                                 SortSet(SeqToSet(DropNa(Column(table, categorical_cols[k])))),
                                 1000))
             ELSE st,
             table, categorical_cols, target_col, k + 1)

\* lines 92-96: the target mean of each period
TimeTrend(st, table, time_col, target_col) ==
    IF Mapped(table, time_col) /\ Mapped(table, target_col)
    THEN Put(st, Key("", "time_trend"),
             GroupMeans(table, time_col, target_col,
                        SortSet(SeqToSet(DropNa(Column(table, time_col)))), 100))
    ELSE st

\* compute_dynamic_stats
ComputeDynamicStats(table, m) ==
    TimeTrend(
        CategoricalBreakdowns(
            NumericColumnStats(
                TargetStats(
                    IdStats(Put(EmptyDict, Key("", "total_records"),
                                Num(RInt(Len(table.rows)))),
                            table, m.id_column),
                    table, m.target_column),
                table, m.numeric_columns, m.target_column, 1),
            table, m.categorical_columns, m.target_column, 1),
        table, m.date_column, m.target_column)

(***************************************************************************)
(* STEP 4 of the wizard (src/app.py): the filter widgets and the dashboard.*)
(***************************************************************************)
\* [c for c in names if c in df.columns]
Present(table, names) == SelectSeq(names, LAMBDA c : HasColumn(table, c))

\* lines 1157-1165: filters[col] = selected, for a non-empty multiselect only
RECURSIVE SelectedFilters(_, _, _, _, _)
SelectedFilters(fs, opts, categorical_cols, selected, k) ==
    IF k > Len(categorical_cols) THEN fs
    ELSE SelectedFilters(
             IF /\ HasKey(opts, Key(categorical_cols[k], ""))
                /\ selected[categorical_cols[k]] # <<>>
             THEN Put(fs, Key(categorical_cols[k], ""),
                      [selected |-> selected[categorical_cols[k]]])
             ELSE fs,
             opts, categorical_cols, selected, k + 1)

\* lines 1167-1177: filters[f"{col}_range"] = range_val, for a slider moved off
\* the full range (min, max) only
RECURSIVE RangeFilters(_, _, _, _, _)
RangeFilters(fs, opts, numeric_cols, range_val, k) ==
    IF k > Len(numeric_cols) THEN fs
    ELSE RangeFilters(
             IF /\ HasKey(opts, Key(numeric_cols[k], ""))
                /\ range_val[numeric_cols[k]]
                      # <<Lookup(opts, Key(numeric_cols[k], "")).min,
                          Lookup(opts, Key(numeric_cols[k], "")).max>>
             THEN Put(fs, Key(numeric_cols[k], "_range"),
                      [low |-> range_val[numeric_cols[k]][1],
                       high |-> range_val[numeric_cols[k]][2]])
             ELSE fs,
             opts, numeric_cols, range_val, k + 1)

\* What the multiselects can return: for each categorical column a list of
\* values the column holds
Selections(table, categorical_cols) ==
    {selected \in [SeqToSet(categorical_cols) ->
                      {SortSet(S) : S \in SUBSET UNION {SeqToSet(DropNa(Column(table, c))) :
                                                          c \in SeqToSet(categorical_cols)}}] :
        \A c \in SeqToSet(categorical_cols) :
            SeqToSet(selected[c]) \subseteq SeqToSet(Column(table, c))}

\* The numbers the columns hold
ParsedValues(table, cols) ==
    UNION {SeqToSet(DropNa(ToNumericSeries(Column(table, c)))) : c \in SeqToSet(cols)}

\* What the sliders can return: for each numeric column a pair low <= high
\* within the values of the column
Ranges(table, numeric_cols) ==
    {range_val \in [SeqToSet(numeric_cols) ->
                       ParsedValues(table, numeric_cols) \X ParsedValues(table, numeric_cols)] :
        \A c \in SeqToSet(numeric_cols) :
            /\ range_val[c][1] \in SeqToSet(ToNumericSeries(Column(table, c)))
            /\ range_val[c][2] \in SeqToSet(ToNumericSeries(Column(table, c)))
            /\ NumLeq(range_val[c][1], range_val[c][2])}

\* lines 1153-1186 for the widget values selected and range_val
Dashboard(table, categorical_cols, numeric_cols, opts, fs) ==
    /\ filter_opts' = opts
    /\ filters' = fs
    /\ filtered_df' = ApplyDynamicFilters(table, fs, categorical_cols, numeric_cols)
    /\ stats' = ComputeDynamicStats(
                    ApplyDynamicFilters(table, fs, categorical_cols, numeric_cols), mapping)

Widgets(table, categorical_cols, numeric_cols, opts) ==
    \E selected \in Selections(table, categorical_cols) :
        \E range_val \in Ranges(table, Present(table,
               SelectSeq(numeric_cols, LAMBDA c : HasKey(opts, Key(c, ""))))) :
            Dashboard(table, categorical_cols, numeric_cols, opts,
                RangeFilters(SelectedFilters(EmptyDict, opts, categorical_cols, selected, 1),
                             opts, numeric_cols, range_val, 1))

\* The Visualize step is rendered with the widgets at some selection
VisualizeStep ==
    /\ pc = "visualize"
    /\ HasColumn(clean_df, mapping.target_column)
    /\ Widgets(clean_df,
               Present(clean_df, mapping.categorical_columns),
               Present(clean_df, mapping.numeric_columns),
               GetDynamicFilterOptions(clean_df,
                   Present(clean_df, mapping.categorical_columns),
                   Present(clean_df, mapping.numeric_columns)))
    /\ pc' = "visualized"
    /\ UNCHANGED <<raw_df, profile, suggestions, plan, heap, dfref, actions, i, log, callno,
                   session>>

(***************************************************************************)
(* SpecFilter: the dashboard on a cleaned table of the columns cat and     *)
(* num, under a mapping that may name the dropped column gone; the         *)
(* Visualize step, and the three functions called on the mapping and on a  *)
(* filters dict as they stand.                                             *)
(***************************************************************************)
MaxFilterRows == 3  \* rows of the cleaned table

\* The number 1, 2 as a slider hands it over
One == Num(RInt(1))
Two == Num(RInt(2))

\* Rows of a CSV file: the text of the cells of cat and num
FilterRowPool ==
    { <<<<"a">>, <<"1">>>>, <<<<"b">>, <<"2">>>>, <<<<"a">>, <<"3">>>>,
      <<<<>>, <<"2">>>>, <<<<"b">>, <<>>>>, <<<<"a">>, <<"x">>>> }

FilterFrame(lines) ==
    Frame(<<"cat", "num">>,
          [k \in 1..Len(lines) |->
              [cat |-> ReadCsvColumn([j \in 1..Len(lines) |-> lines[j][1]])[k],
               num |-> ReadCsvColumn([j \in 1..Len(lines) |-> lines[j][2]])[k]]])

FilterMappings ==
    { [id_column |-> "gone", target_column |-> "cat", date_column |-> None,
       numeric_columns |-> <<"num">>, categorical_columns |-> <<"cat">>],
      [id_column |-> None, target_column |-> "num", date_column |-> "gone",
       numeric_columns |-> <<"gone">>, categorical_columns |-> <<"gone", "cat">>],
      [id_column |-> "cat", target_column |-> "num", date_column |-> "cat",
       numeric_columns |-> <<>>, categorical_columns |-> <<"cat">>] }

\* Entries a filters dict is made of: on the columns of the table and on gone
FilterItems ==
    << [key |-> Key("cat", ""), value |-> [selected |-> <<Str(<<"a">>)>>]],
       [key |-> Key("gone", ""), value |-> [selected |-> <<Str(<<"a">>)>>]],
       [key |-> Key("num", "_range"), value |-> [low |-> One, high |-> Two]],
       [key |-> Key("gone", "_range"), value |-> [low |-> One, high |-> Two]] >>

FilterDicts ==
    {[items |-> SelectSeq(FilterItems, LAMBDA item : item \in S)] :
        S \in SUBSET SeqToSet(FilterItems)}

InitFilter ==
    /\ \E lines \in SeqsUpTo(FilterRowPool, MaxFilterRows) : clean_df = FilterFrame(lines)
    /\ mapping \in FilterMappings
    /\ \/ pc = "visualize" /\ filters = Unset
       \/ pc = "options" /\ filters \in FilterDicts
    /\ filter_opts = Unset
    /\ filtered_df = Unset
    /\ stats = Unset
    /\ raw_df = clean_df
    /\ profile = NoProfile
    /\ suggestions = NoSuggestions
    /\ plan = <<>>
    /\ heap = [caller |-> NoDf, local |-> NoDf]
    /\ dfref = "caller"
    /\ actions = <<>>
    /\ i = 0
    /\ log = <<>>
    /\ callno = 0
    /\ current_step = 3
    /\ cleaning_log = Unset
    /\ model_results = Unset
    /\ transition_target = Unset
    /\ uploaded_file = Unset

\* get_dynamic_filter_options called with the column lists of the mapping
GetOptionsCall ==
    /\ pc = "options"
    /\ filter_opts' = GetDynamicFilterOptions(clean_df, mapping.categorical_columns,
                                              mapping.numeric_columns)
    /\ pc' = "filter"
    /\ UNCHANGED <<raw_df, profile, suggestions, plan, heap, dfref, actions, i, log, callno,
                   session, filters, filtered_df, stats>>

\* apply_dynamic_filters called with the filters dict and the column lists
ApplyFiltersCall ==
    /\ pc = "filter"
    /\ filtered_df' = ApplyDynamicFilters(clean_df, filters, mapping.categorical_columns,
                                          mapping.numeric_columns)
    /\ pc' = IF Raised(filtered_df') THEN "raised" ELSE "filtered"
    /\ UNCHANGED <<raw_df, profile, suggestions, plan, heap, dfref, actions, i, log, callno,
                   session, filter_opts, filters, stats>>

\* compute_dynamic_stats called with the mapping
ComputeStatsCall ==
    /\ pc = "filtered"
    /\ stats' = ComputeDynamicStats(filtered_df, mapping)
    /\ pc' = "stats"
    /\ UNCHANGED <<raw_df, profile, suggestions, plan, heap, dfref, actions, i, log, callno,
                   session, filter_opts, filters, filtered_df>>

NextFilter ==
    \/ VisualizeStep
    \/ GetOptionsCall
    \/ ApplyFiltersCall
    \/ ComputeStatsCall

SpecFilter == InitFilter /\ [][NextFilter]_vars

\* The inputs with every name of a column the table lacks removed
PresentFilters(table, fs) ==
    [items |-> SelectSeq(fs.items, LAMBDA item : HasColumn(table, item.key.col))]
PresentMapping(table, m) ==
    [id_column |-> IF Mapped(table, m.id_column) THEN m.id_column ELSE None,
     target_column |-> IF Mapped(table, m.target_column) THEN m.target_column ELSE None,
     date_column |-> IF Mapped(table, m.date_column) THEN m.date_column ELSE None,
     numeric_columns |-> Present(table, m.numeric_columns),
     categorical_columns |-> Present(table, m.categorical_columns)]

\* C21: get_dynamic_filter_options, apply_dynamic_filters and
\* compute_dynamic_stats, given column lists, a filters dict or a mapping that
\* name a column the table lacks, raise nothing and return what they return
\* with that name removed from the inputs.
C21_StaleColumnsSkipped ==
    /\ pc # "raised"
    /\ pc \in {"filter", "filtered", "stats"}
       => filter_opts = GetDynamicFilterOptions(clean_df,
                            Present(clean_df, mapping.categorical_columns),
                            Present(clean_df, mapping.numeric_columns))
    /\ pc \in {"filtered", "stats"}
       => filtered_df = ApplyDynamicFilters(clean_df, PresentFilters(clean_df, filters),
                            Present(clean_df, mapping.categorical_columns),
                            Present(clean_df, mapping.numeric_columns))
    /\ pc = "stats"
       => stats = ComputeDynamicStats(filtered_df, PresentMapping(filtered_df, mapping))

\* The row passes the filter the entry stands for
Satisfies(row, item) ==
    IF item.key.suffix = "_range"
    THEN /\ ~IsNull(ToNumericCell(row[item.key.col]))
         /\ ~RLess(ToNumericCell(row[item.key.col]).v, item.value.low.v)
         /\ ~RLess(item.value.high.v, ToNumericCell(row[item.key.col]).v)
    ELSE \E k \in 1..Len(item.value.selected) : item.value.selected[k] = row[item.key.col]

\* The range is the full range of the numbers the column holds
IsFullRange(table, c, low, high) ==
    /\ \A r \in 1..Len(table.rows) :
          ~IsNull(ToNumericCell(table.rows[r][c]))
             => /\ ~RLess(ToNumericCell(table.rows[r][c]).v, low.v)
                /\ ~RLess(high.v, ToNumericCell(table.rows[r][c]).v)
    /\ \E r \in 1..Len(table.rows) : ToNumericCell(table.rows[r][c]) = low
    /\ \E r \in 1..Len(table.rows) : ToNumericCell(table.rows[r][c]) = high

\* The entry is an active filter: a non-empty selection, a range that is not
\* the full one
Active(table, item) ==
    IF item.key.suffix = "_range"
    THEN ~IsFullRange(table, item.key.col, item.value.low, item.value.high)
    ELSE item.value.selected # <<>>

Merge(state, res) == [df |-> res.df, log |-> state.log \o res.log]
Iterate(state, branch, act) ==
    CASE branch = "remove_duplicates" -> Merge(state, RemoveDuplicates(state.df))
      [] branch = "strip_whitespace" ->
            Merge(state, StripWhitespace(state.df, Get(act, "column", None)))
      [] branch = "standardize_case" ->
            Merge(state, StandardizeCase(state.df, Get(act, "column", None)))
      [] branch = "impute_missing" ->
            Merge(state, ImputeMissing(state.df, Get(act, "column", None),
                                       Get(act, "method", "median")))
      [] branch = "clip_outliers" ->
            Merge(state, ClipOutliers(state.df, Get(act, "column", None)))
      [] branch = "drop_column" ->
            Merge(state, DropColumnAction(state.df, Get(act, "column", None)))
      [] branch = "convert_numeric" ->
            Merge(state, ConvertNumeric(state.df, Get(act, "column", None)))
      [] branch = "none" -> state

RECURSIVE ApplyLoop(_, _, _)
ApplyLoop(state, acts, k) ==
    IF k > Len(acts) THEN state
    ELSE ApplyLoop(Iterate(state, Branch(state.df, acts[k]), acts[k]), acts, k + 1)

\* apply_cleaning_actions as a function of its arguments: (cleaned_df, log)
ApplyCleaningActions(table, acts) == ApplyLoop([df |-> table, log |-> <<>>], acts, 1)

\* `if st.session_state.cleaning_log:` - neither None nor the empty list
Truthy(cl) == cl # Unset /\ cl.entries # <<>>

NoCleaningLog ==
    [entries |-> <<[text |-> "No cleaning needed - dataset was already clean."]>>]

\* The sub-lists of a list, in its order
SubLists(names) ==
    {SelectSeq(names, LAMBDA c : c \in S) : S \in SUBSET SeqToSet(names)}

\* What the widgets of step 2 can hold as a complete mapping of the table (no
\* id and no time column chosen): a target, numeric features other than the
\* target, categorical features other than the numeric ones, one feature at
\* least.  The selections considered keep the target out of the features.
MappingChoices(table) ==
    {m \in [id_column : {None}, target_column : SeqToSet(table.cols), date_column : {None},
            numeric_columns : SubLists(table.cols),
            categorical_columns : SubLists(table.cols)] :
        /\ m.target_column \notin SeqToSet(m.numeric_columns)
        /\ m.target_column \notin SeqToSet(m.categorical_columns)
        /\ SeqToSet(m.categorical_columns) \cap SeqToSet(m.numeric_columns) = {}
        /\ Len(m.numeric_columns) + Len(m.categorical_columns) > 0}

\* lines 1083-1092: the convert_numeric actions offered for the mapped
\* numeric columns stored as object, for those whose checkbox is ticked
ConvertOffered(table, m) ==
    {c \in SeqToSet(m.numeric_columns) : HasColumn(table, c) /\ table.dtype[c] = "object"}

ConvertActions(table, m, ticked) ==
    LET offered == SelectSeq(m.numeric_columns,
                       LAMBDA c : c \in ConvertOffered(table, m) /\ c \in ticked)
    IN  [k \in 1..Len(offered) |-> [action |-> "convert_numeric", column |-> offered[k]]]

\* Rendering step 1 (Upload) with no file in the uploader writes nothing
RenderUpload ==
    UNCHANGED <<raw_df, profile, plan, mapping, clean_df, cleaning_log>>

\* Rendering step 2 (Profile & Map), lines 906-1020: the profile is stored,
\* and the mapping the widgets hold is stored when it is complete
RenderProfileMap ==
    /\ profile' = ProfileDataset(raw_df)
    /\ \/ mapping' \in MappingChoices(raw_df)
       \/ mapping' = mapping
    /\ UNCHANGED <<raw_df, plan, clean_df, cleaning_log>>

\* Rendering step 3 (Clean), lines 1043-1057, for the profile prof at hand: an
\* empty plan stores a copy of the raw table as the cleaned one
RenderCleanWith(prof, cleaning_plan) ==
    /\ profile' = prof
    /\ plan' = cleaning_plan
    /\ IF cleaning_plan = <<>>
       THEN clean_df' = raw_df /\ cleaning_log' = NoCleaningLog
       ELSE UNCHANGED <<clean_df, cleaning_log>>
    /\ UNCHANGED <<raw_df, mapping>>

RenderCleanFor(prof) == RenderCleanWith(prof, GenerateCleaningPlan(prof))

RenderClean ==
    RenderCleanFor(IF profile = NoProfile THEN ProfileDataset(raw_df) ELSE profile)

\* Rendering a later step writes none of these keys
RenderLater ==
    UNCHANGED <<raw_df, profile, plan, mapping, clean_df, cleaning_log>>

\* (mutant) Jump To offering every step
JumpTargetsAll(step) == 0..6

\* lines 756-757: Jump To offers the steps before the current one
JumpTargets(step) == {t \in 0..6 : t < step}

\* No transition is pending: the page is shown and waits for the user
Shown(step) == transition_target = Unset /\ current_step = step

\* go_to_step(target), lines 560-561, called by a button of the page
GoToStep(target) ==
    /\ transition_target = Unset
    /\ transition_target' = [target |-> target]
    /\ UNCHANGED <<raw_df, profile, suggestions, plan, heap, dfref, actions, i, log, pc,
                   callno, current_step, mapping, clean_df, cleaning_log, model_results,
                   uploaded_file, dashboard>>

\* lines 706-709 and the page that follows: the run after go_to_step moves to
\* the target and renders that step.  The uploader, which has no key, comes
\* back empty: no page was shown between the press and this run.
HandleTransition ==
    /\ transition_target # Unset
    /\ current_step' = transition_target.target
    /\ transition_target' = Unset
    /\ uploaded_file' = Unset
    /\ CASE transition_target.target = 0 -> RenderUpload
         [] transition_target.target = 1 -> RenderProfileMap
         [] transition_target.target = 2 -> RenderClean
         [] OTHER -> RenderLater
    /\ UNCHANGED <<suggestions, heap, dfref, actions, i, log, pc, callno, model_results,
                   dashboard>>

MinTrainRows == 20

\* train_model, lines 18-60 of predictive_model.py: the class of each row
\* (above/below the median for more than two target values), the rows left
\* after both dropna calls, and the metrics returned - an error for fewer than
\* MinTrainRows rows or one class only.  The fit itself is not modelled.
TargetClass(cell, many, median) ==
    IF many
    THEN (IF ~IsNull(cell) /\ ~RLess(cell.v, median.v) THEN Num(RInt(1)) ELSE Num(RInt(0)))
    ELSE cell

Classes(target, kept, many, median) ==
    {TargetClass(target[r], many, median) : r \in kept}

\* target.astype(int) raises on a NaN (the branches for at most two values)
TrainRaises(table, target_col) ==
    /\ Cardinality(SeqToSet(DropNa(ToNumericSeries(Column(table, target_col))))) <= 2
    /\ \E r \in 1..Len(table.rows) : IsNull(ToNumericCell(table.rows[r][target_col]))

CompleteRows(table, target_col, numeric_features, categorical_features) ==
    {r \in 1..Len(table.rows) :
        /\ ~IsNull(table.rows[r][target_col])
        /\ \A k \in 1..Len(categorical_features) :
              ~IsNull(table.rows[r][categorical_features[k]])
        /\ \A k \in 1..Len(numeric_features) :
              ~IsNull(table.rows[r][numeric_features[k]])}

ParsedRows(table, kept, numeric_features) ==
    {r \in kept : \A k \in 1..Len(numeric_features) :
                     ~IsNull(ToNumericCell(table.rows[r][numeric_features[k]]))}

TrainMetrics(table, target_col, kept, numeric_features) ==
    IF Cardinality(kept) < MinTrainRows
    THEN [error |-> "Not enough data after cleaning (need at least 20 rows)"]
    ELSE IF Cardinality(Classes(ToNumericSeries(Column(table, target_col)),
                    ParsedRows(table, kept, numeric_features),
                    Cardinality(SeqToSet(DropNa(ToNumericSeries(Column(table, target_col))))) > 2,
                    Median(ToNumericSeries(Column(table, target_col))))) < 2
    THEN [error |-> "Target variable has only one class after cleaning"]
    ELSE [trained |-> TRUE]

TrainModel(table, target_col, numeric_features, categorical_features) ==
    [metrics |-> TrainMetrics(table, target_col,
                     CompleteRows(table, target_col, numeric_features, categorical_features),
                     numeric_features)]

\* Step 5 shows its buttons: the target is there and a feature is selected
\* (every mapped feature the cleaned table still has is)
CanPredict ==
    /\ Shown(4)
    /\ HasColumn(clean_df, mapping.target_column)
    /\ Present(clean_df, mapping.numeric_columns)
          \o Present(clean_df, mapping.categorical_columns) # <<>>

(***************************************************************************)
(* SpecWizard: a session over the sample dataset and an uploaded file.      *)
(***************************************************************************)
\* The built-in sample: MinTrainRows distinct rows, nothing to clean
SampleTable ==
    Frame(<<"cat", "num">>,
          [k \in 1..MinTrainRows |->
              [cat |-> IF k % 2 = 0 THEN Str(<<"a">>) ELSE Str(<<"b">>), num |-> Num(RInt(k))]])

\* The uploaded file: padded text and a missing number
UploadPool ==
    { Frame(<<"cat", "num">>, << [cat |-> Str(<<" ", "a">>), num |-> Num(RInt(1))],
                                 [cat |-> Str(<<"b">>), num |-> NaN] >>) }

InitWizard ==
    /\ raw_df = Unset
    /\ profile = NoProfile
    /\ suggestions = NoSuggestions
    /\ plan = <<>>
    /\ heap = [caller |-> NoDf, local |-> NoDf]
    /\ dfref = "caller"
    /\ actions = <<>>
    /\ i = 0
    /\ log = <<>>
    /\ pc = "wizard"
    /\ callno = 0
    /\ NoSession /\ NoDashboard

Others == <<suggestions, heap, dfref, i, log, pc, callno, dashboard>>

\* lines 863-878: a file is put into the uploader of step 1 and read
Upload ==
    /\ Shown(0)
    /\ uploaded_file' \in UploadPool
    /\ raw_df' = uploaded_file'
    /\ UNCHANGED <<profile, plan, actions, current_step, mapping, clean_df, cleaning_log,
                   model_results, transition_target, Others>>

\* The file is taken out of the uploader: the run that follows writes nothing
RemoveFile ==
    /\ Shown(0)
    /\ uploaded_file # Unset
    /\ uploaded_file' = Unset
    /\ UNCHANGED <<raw_df, profile, plan, actions, current_step, mapping, clean_df,
                   cleaning_log, model_results, transition_target, Others>>

\* lines 883-889 and 869-876: Load Sample Education Data stores the sample,
\* and the run that follows stores the file again if the uploader holds one
LoadSample ==
    /\ Shown(0)
    /\ raw_df' = IF uploaded_file # Unset THEN uploaded_file ELSE SampleTable
    /\ UNCHANGED <<profile, plan, actions, session, Others>>

\* lines 893-900: Continue to Data Profiling
ContinueToProfiling ==
    /\ current_step = 0
    /\ raw_df # Unset
    /\ GoToStep(1)

\* The user changes the mapping widgets of step 2: the step is rendered again
MapColumns ==
    /\ Shown(1)
    /\ RenderProfileMap
    /\ UNCHANGED <<current_step, model_results, transition_target, uploaded_file, actions,
                   Others>>

\* lines 1012-1037: Continue to Data Cleaning, shown for a complete mapping
ContinueToCleaning ==
    /\ current_step = 1
    /\ mapping \in MappingChoices(raw_df)
    /\ GoToStep(2)

\* lines 1061-1100: Apply Selected Cleaning Actions, for the ticked actions of
\* the plan and the ticked conversions
Applied(selection, res) ==
    /\ clean_df' = res.df
    /\ cleaning_log' = [entries |-> res.log]
    /\ actions' = selection

ApplySelected(selection) ==
    /\ plan # <<>>
    /\ Applied(selection, ApplyCleaningActions(raw_df, selection))
    /\ UNCHANGED <<raw_df, profile, plan, current_step, mapping, model_results,
                   transition_target, uploaded_file, Others>>

ApplySelectedCleaningActions ==
    /\ Shown(2)
    /\ \E ticked \in SUBSET (1..Len(plan)) :
          \E converted \in SUBSET ConvertOffered(raw_df, mapping) :
              ApplySelected(Selected(ticked) \o ConvertActions(raw_df, mapping, converted))

\* lines 1103-1126: Continue to Visualizations, shown for a non-empty log
ContinueToVisualizations ==
    /\ current_step = 2
    /\ Truthy(cleaning_log)
    /\ GoToStep(3)

\* lines 1144-1149, 1274-1276: Continue to Predictions
ContinueToPredictions ==
    /\ current_step = 3
    /\ HasColumn(clean_df, mapping.target_column)
    /\ GoToStep(4)

\* lines 1144-1149, 1291-1296: Go Back to Column Mapping, shown when cleaning
\* removed the target column
GoBackToColumnMapping ==
    /\ current_step \in {3, 4}
    /\ ~HasColumn(clean_df, mapping.target_column)
    /\ GoToStep(1)

\* lines 1308-1322: Train Model
TrainModelPressed ==
    /\ CanPredict
    /\ ~TrainRaises(clean_df, mapping.target_column)
    /\ model_results' = TrainModel(clean_df, mapping.target_column,
                                   Present(clean_df, mapping.numeric_columns),
                                   Present(clean_df, mapping.categorical_columns))
    /\ UNCHANGED <<raw_df, profile, plan, actions, current_step, mapping, clean_df,
                   cleaning_log, transition_target, uploaded_file, Others>>

\* lines 1324-1446: Continue to AI Insights, shown under the metrics of a
\* trained model
ContinueToAIInsights ==
    /\ CanPredict
    /\ model_results # Unset
    /\ "error" \notin DOMAIN model_results.metrics
    /\ GoToStep(5)

\* lines 1471-1473, 1544-1546: Skip to Report, Continue to Report
ContinueToReport ==
    /\ current_step = 5
    /\ GoToStep(6)

\* lines 747-750: Previous Step
PreviousStep ==
    /\ current_step > 0
    /\ GoToStep(current_step - 1)

\* lines 753-760: Jump To
JumpTo ==
    /\ current_step > 1
    /\ \E target \in JumpTargets(current_step) : GoToStep(target)

\* lines 1645-1648 and 530-547: Start Over deletes every key of the session
\* state, and the run that follows initialises them again
StartOver ==
    /\ Shown(6)
    /\ current_step' = 0
    /\ raw_df' = Unset
    /\ profile' = NoProfile
    /\ mapping' = Unset
    /\ actions' = <<>>
    /\ clean_df' = Unset
    /\ cleaning_log' = Unset
    /\ model_results' = Unset
    /\ transition_target' = Unset
    /\ uploaded_file' = Unset
    /\ UNCHANGED <<plan, Others>>

NextWizard ==
    \/ Upload
    \/ RemoveFile
    \/ LoadSample
    \/ ContinueToProfiling
    \/ MapColumns
    \/ ContinueToCleaning
    \/ ApplySelectedCleaningActions
    \/ ContinueToVisualizations
    \/ ContinueToPredictions
    \/ GoBackToColumnMapping
    \/ TrainModelPressed
    \/ ContinueToAIInsights
    \/ ContinueToReport
    \/ PreviousStep
    \/ JumpTo
    \/ StartOver
    \/ HandleTransition

SpecWizard == InitWizard /\ [][NextWizard]_vars


(***************************************************************************)
(* Claims on the wizard session.                                           *)
(***************************************************************************)
\* The actions of cleaning_plan whose checkbox is ticked, in plan order
Chosen(cleaning_plan, ticked) ==
    LET F[k \in 0..Len(cleaning_plan)] ==
            IF k = 0 THEN <<>>
            ELSE IF k \in ticked THEN Append(F[k - 1], cleaning_plan[k]) ELSE F[k - 1]
    IN  F[Len(cleaning_plan)]

\* cleaned and cl are what step 3 stores for table under some use of the page:
\* the copy of a table with nothing to clean, or the result of applying a
\* selection of its plan and of the conversions some mapping offers
ProducedFrom(table, cleaning_plan, cleaned, cl) ==
    IF cleaning_plan = <<>>
    THEN cleaned = table /\ cl = NoCleaningLog
    ELSE \E ticked \in SUBSET (1..Len(cleaning_plan)) :
            \E m \in MappingChoices(table) :
               \E converted \in SUBSET ConvertOffered(table, m) :
                  ApplyCleaningActions(table, Chosen(cleaning_plan, ticked)
                                                  \o ConvertActions(table, m, converted))
                     = [df |-> cleaned, log |-> cl.entries]

\* C28: from step 3 on, clean_df and cleaning_log are the result of cleaning
\* the raw_df the session holds now; after going back and loading another
\* dataset, step 3 is not reached with the cleaned table of the previous one.
C28_CleanedFromCurrentRaw ==
    current_step >= 3 =>
        /\ clean_df # Unset
        /\ cleaning_log # Unset
        /\ ProducedFrom(raw_df, GenerateCleaningPlan(ProfileDataset(raw_df)), clean_df,
                        cleaning_log)

\* C29: current_step stays in 0..6; every step forward is by exactly one;
\* from step 1 on raw_df is set, from step 2 on the mapping is set with a
\* target column, from step 3 on clean_df is set; Start Over leaves the
\* session at step 0 with raw_df, profile, mapping, clean_df, cleaning_log and
\* model_results all unset.
C29_StepDiscipline ==
    /\ [](/\ current_step \in 0..6
          /\ current_step >= 1 => raw_df # Unset
          /\ current_step >= 2 => mapping # Unset /\ mapping.target_column # None
          /\ current_step >= 3 => clean_df # Unset)
    /\ [][current_step' > current_step => current_step' = current_step + 1]_vars
    /\ [][Shown(6) /\ current_step' = 0 =>
             /\ raw_df' = Unset
             /\ profile' = NoProfile
             /\ mapping' = Unset
             /\ clean_df' = Unset
             /\ cleaning_log' = Unset
             /\ model_results' = Unset]_vars

\* The report of a trained model is shown: six steps forward were taken, and
\* Start Over is offered
C29_Witness ==
    /\ Shown(6)
    /\ raw_df # Unset
    /\ mapping # Unset
    /\ clean_df # Unset
    /\ model_results # Unset

\* C30: on the Clean step, pressing Apply Selected Cleaning Actions with any
\* selection - an empty one, or one whose actions log nothing - makes
\* Continue to Visualizations available on the next run.
C30_ApplyEnablesContinue ==
    [][ApplySelectedCleaningActions => Shown(2)' /\ Truthy(cleaning_log')]_vars

====
